---- MODULE Spec2Model ----
(***************************************************************************)
(* Verification model of the wegpiraten toolkit.                           *)
(*                                                                         *)
(*   Spec        TimeSheetsImporter.run over a source directory            *)
(*   SpecRead    TimeSheetsImporter._read_rows over one worksheet          *)
(*   SpecRow     construction of one InvoiceRowModel from a payload        *)
(*   SpecInvoice InvoiceProcessor.run (grouping and totals)                *)
(*                                                                         *)
(* Python floats are modelled by integers (a unit of time or money),       *)
(* None by the empty tuple and a present optional value x by <<x>>.        *)
(***************************************************************************)
EXTENDS Integers, Sequences, FiniteSets, TLC

VARIABLES
    \* ---- TimeSheetsImporter.run ----
    pc,               \* position of run / process_file
    profile_sheet,    \* self.profile.sheet_name is set
    source_dir,       \* names of the *.xlsx files in self.source_dir
    imported_dir,     \* files in self.imported_dir: [name, stamp, file]
    files,            \* run: files (sorted discovery result)
    idx,              \* run: index of file_path in files
    content,          \* what load_workbook showed for each file (once opened)
    rows,             \* process_file: rows returned by _read_rows
    month_str,        \* process_file: month_str
    txn,              \* _import_rows: records inserted, not yet committed
    count,            \* _import_rows: count
    invoice_data,     \* committed rows of table invoice_data
    exc,              \* exception propagating out of process_file
    total,            \* run: total
    all_export_rows,  \* run: all_export_rows
    derived_month,    \* run: derived_month
    exported,         \* rows written by _export_rows_to_excel
    log,              \* logger.error / logger.exception / logger.warning calls
    moved,            \* names of the files _move_to_imported has moved
    run_no,           \* number of the current invocation of run
    reporting_month_arg,  \* the argument reporting_month of run
    \* ---- TimeSheetsImporter._read_rows ----
    rd_pc,            \* "reading" | "returned" | "raised"
    row_idx,          \* row_idx of the loop
    ws,               \* the rows of the worksheet read so far (raw cells)
    rd_rows,          \* rows (the result list)
    rd_log,           \* rows whose ValidationError was logged
    \* ---- InvoiceRowModel(payload) ----
    payload,          \* the keyword arguments
    built,            \* the outcome of the construction
    \* ---- InvoiceProcessor.run ----
    inv_pc,           \* position of run
    columns_cfg,      \* expected_columns: name -> [is_position, sum]
    df_columns,       \* the columns of the loaded sheet
    df,               \* invoice_data: the rows load_data returned
    payers,           \* the payer groups still to handle
    payer_id,         \* the payer group of the outer loop
    clients,          \* the client groups of the payer still to handle
    invoices_for_payer,
    all_invoices,
    invoice_list,
    contexts,         \* every invoice_context built, in order
    merged,           \* the merged PDFs written: [payer, pdfs]
    inv_log,          \* messages of log_exceptions
    outputs,          \* the summary workbook and the ZIP archive
    \* ---- get_month_period ----
    mp_pc,            \* "call" | "returned" | "raised"
    abrechnungsmonat, \* the argument: the characters of the month string
    period,           \* what the call returned or raised
    \* ---- Entity(...) ----
    en_pc,            \* "call" | "built" | "raised"
    kwargs,           \* the keyword arguments zip, city, zip_city
    entity,           \* the constructed object or the exception
    \* ---- create_reporting_sheet, then the import of the written sheet ----
    sh_pc,            \* "create" | "created" | "create raised" | "profile" | ...
    sheet_args,       \* configuration, template and arguments of the call
    out_wb,           \* the workbook wb.save wrote: cells and sheet protection
    imp_profile,      \* the header_cells of the importer's profile
    imp_header,       \* process_file: header and month_str
    \* ---- DataLoader.load_data ----
    ld_pc,            \* "call" | "returned"
    ld_sheet,         \* the worksheet: all its rows, and the names of its header row
    ld_filter,        \* the InvoiceFilter of the loader
    ld_df,            \* the DataFrame load_data returned
    \* ---- get_sheet_password ----
    pw_pc,            \* "call" | "returned ..."
    environ,          \* os.environ: SHEET_PASSWORD_ENC, FERNET_KEY, SHEET_PASSWORD
    sheet_pw,         \* what get_sheet_password returned or raised
    \* ---- Config ----
    cf_variant,       \* which of the three Config classes the process uses
    cf_instance,      \* Config._instance: None or the attributes of the object
    cf_created,       \* number of Config objects object.__new__ has made
    cf_calls,         \* number of constructions and load() calls so far
    cf_first,         \* the configuration data after the first successful load
    cf_result         \* the last call: "none", "instance", "loaded" or the exception

importVars == <<pc, profile_sheet, source_dir, imported_dir, files, idx, content,
                rows, month_str, txn, count, invoice_data, exc, total,
                all_export_rows, derived_month, exported, log, moved, run_no,
                reporting_month_arg>>
readVars == <<rd_pc, row_idx, ws, rd_rows, rd_log>>
rowVars == <<payload, built>>
invVars == <<inv_pc, columns_cfg, df_columns, df, payers, payer_id, clients,
             invoices_for_payer, all_invoices, invoice_list, contexts, merged,
             inv_log, outputs>>
monthVars == <<mp_pc, abrechnungsmonat, period>>
entityVars == <<en_pc, kwargs, entity>>
sheetVars == <<sh_pc, sheet_args, out_wb, imp_profile, imp_header>>
loadVars == <<ld_pc, ld_sheet, ld_filter, ld_df>>
secretVars == <<pw_pc, environ, sheet_pw>>
configVars == <<cf_variant, cf_instance, cf_created, cf_calls, cf_first, cf_result>>
vars == <<importVars, readVars, rowVars, invVars, monthVars, entityVars, sheetVars, loadVars, secretVars, configVars>>

(***************************************************************************)
(* Bounds of the model                                                     *)
(***************************************************************************)
MaxFiles == 2      \* files in the source directory
NumRows == 2       \* rows of the table range read by _read_rows
MaxInvoiceRows == 2   \* data rows of the invoice workbook
MaxRuns == 2       \* invocations of TimeSheetsImporter.run
MaxDataRows == 2   \* data rows of the workbook load_data reads
MaxCalls == 4      \* constructions and load() calls of Config in one process

None == <<>>
Some(x) == <<x>>
Val(o) == o[1]

(***************************************************************************)
(* Raw cell values, as openpyxl returns them: <<type, value>>.             *)
(*   "none"      empty cell (None)                                         *)
(*   "num"       int or float n                                            *)
(*   "numstr"    str that float() parses to n, e.g. "1,5"                  *)
(*   "text"      any other non-empty str                                   *)
(*   "estr"      the empty str                                             *)
(*   "bool"      a value of another type (bool, time, ...)                 *)
(*   "date"      datetime.date d      "datetime"  datetime.datetime on d   *)
(*   "datestr"   str in one of DATE_FORMATS denoting day d                 *)
(***************************************************************************)
Cell(t, v) == <<t, v>>
Empty == Cell("none", 0)

\* shared_modules/utils.py: _FLOAT_CONVERTERS / to_float
to_float(v) ==
    CASE v[1] = "none" -> None
      [] v[1] = "num" -> Some(v[2])
      [] v[1] = "numstr" -> Some(v[2])
      [] v[1] \in {"text", "estr", "datestr"} -> None   \* float(s) raises ValueError
      [] OTHER -> None                                  \* no converter for the type

\* shared_modules/utils.py: _DATE_CONVERTERS / to_date
to_date(v) ==
    CASE v[1] = "none" -> None
      [] v[1] = "date" -> Some(v[2])
      [] v[1] = "datetime" -> Some(v[2])
      [] v[1] = "datestr" -> Some(v[2])
      [] v[1] \in {"text", "estr", "numstr"} -> None    \* no format matches
      [] OTHER -> None                                  \* no converter for the type

\* `x or 0.0` on an Optional[float]
OrZero(o) == IF o = None \/ Val(o) = 0 THEN 0 ELSE Val(o)

\* date.today() of the import run
Today == 9

(***************************************************************************)
(* InvoiceRowModel (pydantic v2 BaseModel).                                *)
(*                                                                         *)
(* A payload maps the supplied keyword names to None or Some(value).       *)
(* pydantic validates the fields in declaration order.  A field that is    *)
(* not supplied takes its default and its validators do NOT run            *)
(* (validate_default is off).  A supplied field goes through its           *)
(* mode="before" field_validator first.  A ValueError / AssertionError or  *)
(* a type mismatch is collected into one ValidationError; any other        *)
(* exception raised by a validator propagates unchanged at once.           *)
(* field_validator calls a (cls, value, x) validator with x = the          *)
(* ValidationInfo object, whose validated fields are in x.data; unlike the *)
(* dict of the pydantic v1 @validator it has no attribute `get`.           *)
(***************************************************************************)
Ok(v) == [st |-> "ok", v |-> v]
Invalid == [st |-> "invalid", v |-> None]
Raise(e) == [st |-> e, v |-> None]

\* what field_validator hands to the validator as its third argument
ValidationInfo(data) == [kind |-> "ValidationInfo", data |-> data]

\* values.get exists only on a dict
HasGet(values) == values.kind = "dict"

\* values.get(key, default)
Get(values, key, default) ==
    IF key \in DOMAIN values.data THEN values.data[key] ELSE default

default_billable_hours(value, values) ==
    IF value = None
    THEN IF HasGet(values)
         THEN Ok(Some(Get(values, "direct_time", 0) + Get(values, "indirect_time", 0)))
         ELSE Raise("AttributeError")
    ELSE Ok(value)

default_total_hours(value, values) ==
    IF value = None
    THEN IF HasGet(values)
         THEN Ok(Some(Get(values, "travel_time", 0) + Get(values, "direct_time", 0)
                      + Get(values, "indirect_time", 0)))
         ELSE Raise("AttributeError")
    ELSE Ok(value)

default_total_costs(value, values) ==
    IF value = None
    THEN IF HasGet(values)
         THEN IF Get(values, "hourly_rate", None) # None
              THEN Ok(Some(Get(values, "billable_hours", 0) * Val(values.data["hourly_rate"])))
              ELSE Ok(value)
         ELSE Raise("AttributeError")
    ELSE Ok(value)

\* a required field (client_id, employee_id, service_date, service_type)
RequiredField(p, k) ==
    IF k \in DOMAIN p /\ p[k] # None THEN Ok(Val(p[k])) ELSE Invalid

\* `name: float = 0.0` without validator
FloatField(p, k) ==
    IF k \notin DOMAIN p THEN Ok(0)
    ELSE IF p[k] = None THEN Invalid ELSE Ok(Val(p[k]))

\* type check of a float field after its before-validator returned r
AsFloat(r) ==
    IF r.st # "ok" THEN r ELSE IF r.v = None THEN Invalid ELSE Ok(Val(r.v))

\* the fields validated so far (ValidationInfo.data)
DataOf(res) == [k \in {f \in DOMAIN res : res[f].st = "ok"} |-> res[k].v]

PlainFields == {"client_id", "employee_id", "service_date", "service_type",
                "travel_time", "direct_time", "indirect_time"}
DerivedFields == {"billable_hours", "total_hours", "total_costs"}
ModelFields == PlainFields \cup DerivedFields \cup {"hourly_rate"}

InvoiceRowModel(p) ==
    LET r1 == [k \in PlainFields |->
                 IF k \in {"travel_time", "direct_time", "indirect_time"}
                 THEN FloatField(p, k) ELSE RequiredField(p, k)]
        bill == IF "billable_hours" \in DOMAIN p
                THEN AsFloat(default_billable_hours(p["billable_hours"],
                                                    ValidationInfo(DataOf(r1))))
                ELSE Ok(0)
        r2 == [k \in PlainFields \cup {"billable_hours"} |->
                 IF k = "billable_hours" THEN bill ELSE r1[k]]
        rate == IF "hourly_rate" \in DOMAIN p THEN Ok(p["hourly_rate"]) ELSE Ok(None)
        r3 == [k \in DOMAIN r2 \cup {"hourly_rate"} |->
                 IF k = "hourly_rate" THEN rate ELSE r2[k]]
        hours == IF "total_hours" \in DOMAIN p
                 THEN default_total_hours(p["total_hours"], ValidationInfo(DataOf(r3)))
                 ELSE Ok(None)
        r4 == [k \in DOMAIN r3 \cup {"total_hours"} |->
                 IF k = "total_hours" THEN hours ELSE r3[k]]
        costs == IF "total_costs" \in DOMAIN p
                 THEN default_total_costs(p["total_costs"], ValidationInfo(DataOf(r4)))
                 ELSE Ok(None)
        r5 == [k \in ModelFields |-> IF k = "total_costs" THEN costs ELSE r4[k]]
    IN  IF \E k \in ModelFields : r5[k].st = "AttributeError"
        THEN [kind |-> "AttributeError", rec |-> None]
        ELSE IF \E k \in ModelFields : r5[k].st = "invalid"
        THEN [kind |-> "ValidationError", rec |-> None]
        ELSE [kind |-> "ok", rec |-> Some([k \in ModelFields |-> r5[k].v])]

(***************************************************************************)
(* SpecRow: InvoiceRowModel(payload) for payloads over small value sets  *)
(***************************************************************************)
\* per keyword: <<>> = not supplied, <<v>> = supplied with v (None or Some(n))
PayloadChoices ==
    [client_id : {<<Some(1)>>}, employee_id : {<<Some(1)>>}, service_type : {<<Some(1)>>},
     service_date : {<<Some(3)>>},
     travel_time : {<<>>, <<Some(0)>>, <<Some(1)>>},
     direct_time : {<<Some(2)>>},
     indirect_time : {<<>>, <<None>>, <<Some(4)>>},
     billable_hours : {<<>>, <<None>>, <<Some(5)>>},
     hourly_rate : {<<>>, <<None>>, <<Some(3)>>},
     total_hours : {<<>>, <<None>>, <<Some(8)>>},
     total_costs : {<<>>, <<None>>, <<Some(20)>>}]

PayloadOf(c) == [k \in {f \in ModelFields : c[f] # <<>>} |-> c[k][1]]

(***************************************************************************)
(* TimeSheetsImporter._read_rows                                           *)
(***************************************************************************)
\* Python truthiness of a cell value
Truthy(c) ==
    \/ c[1] \in {"text", "blank", "numstr", "date", "datetime", "datestr"}
    \/ c[1] \in {"num", "bool"} /\ c[2] # 0

\* str(header.get(k) or "").strip(): the resulting string, 0 being ""
HeaderStr(c) == IF Truthy(c) /\ c[1] # "blank" THEN c[2] ELSE 0

\* line 172: the row is skipped
SkipRow(service_date, travel, direct, indirect) ==
    service_date = None /\ travel + direct + indirect = 0

\* lines 175-184: payload
RowPayload(header, service_date, travel, direct, indirect, billable) ==
    [k \in PlainFields \cup {"billable_hours"} |->
        CASE k = "client_id" -> Some(HeaderStr(header.client_id))
          [] k = "employee_id" -> Some(HeaderStr(header.employee_id))
          [] k = "service_type" -> Some(HeaderStr(header.service_type))
          [] k = "service_date" -> IF service_date = None THEN Some(Today) ELSE service_date
          [] k = "travel_time" -> Some(travel)
          [] k = "direct_time" -> Some(direct)
          [] k = "indirect_time" -> Some(indirect)
          [] k = "billable_hours" -> billable]

\* lines 160-189: the body of the loop for one row of cells.
\* kind: "skip" (continue), "ok" (rows.append), "ValidationError" (logged),
\* or the exception that leaves the loop.
ReadRow(cells, header) ==
    LET service_date == to_date(cells.date)
        travel == OrZero(to_float(cells.travel))
        direct == OrZero(to_float(cells.direct))
        indirect == OrZero(to_float(cells.indirect))
        billable == to_float(cells.billable)
    IN  IF SkipRow(service_date, travel, direct, indirect)
        THEN [kind |-> "skip", rec |-> None]
        ELSE InvoiceRowModel(RowPayload(header, service_date, travel, direct,
                                        indirect, billable))

\* _read_rows on a whole worksheet: <<rows, rows with a logged ValidationError, raised>>
RECURSIVE ReadFrom(_, _, _, _, _)
ReadFrom(sheet, header, i, acc, bad) ==
    IF i > Len(sheet) THEN [rows |-> acc, logged |-> bad, raised |-> "none"]
    ELSE LET o == ReadRow(sheet[i], header)
         IN  CASE o.kind = "skip" -> ReadFrom(sheet, header, i + 1, acc, bad)
               [] o.kind = "ok" ->
                    ReadFrom(sheet, header, i + 1,
                             Append(acc, [row |-> i, rec |-> Val(o.rec)]), bad)
               [] o.kind = "ValidationError" ->
                    ReadFrom(sheet, header, i + 1, acc, Append(bad, i))
               [] OTHER -> [rows |-> acc, logged |-> bad, raised |-> o.kind]

_read_rows(sheet, header) == ReadFrom(sheet, header, 1, <<>>, <<>>)

\* the cells of one row of the table range
RowCells ==
    [date : {Empty, Cell("date", 3), Cell("text", 0)},
     travel : {Cell("num", 0), Cell("num", 1)},
     direct : {Empty, Cell("num", 2), Cell("num", -1)},
     indirect : {Cell("text", 0), Cell("numstr", 4)},
     billable : {Empty, Cell("num", 6)}]

\* a header that passes the checks of process_file
GoodHeader ==
    [client_id |-> Cell("text", 1), employee_id |-> Cell("num", 2),
     service_type |-> Cell("text", 3), reporting_month |-> Cell("date", 3)]

ReadIdle ==
    /\ rd_pc = "idle" /\ row_idx = 0 /\ ws = <<>> /\ rd_rows = <<>> /\ rd_log = <<>>

InitRead ==
    /\ rd_pc = "reading" /\ row_idx = 1 /\ ws = <<>> /\ rd_rows = <<>> /\ rd_log = <<>>

\* one iteration of `for row_idx in range(rng.start_row, rng.end_row + 1)`
ReadRowStep ==
    /\ rd_pc = "reading"
    /\ row_idx <= NumRows
    /\ \E cells \in RowCells :
         LET o == ReadRow(cells, GoodHeader)
         IN  /\ ws' = Append(ws, cells)
             /\ rd_rows' = IF o.kind = "ok"
                           THEN Append(rd_rows, [row |-> row_idx, rec |-> Val(o.rec)])
                           ELSE rd_rows
             /\ rd_log' = IF o.kind = "ValidationError"
                          THEN Append(rd_log, row_idx) ELSE rd_log
             /\ rd_pc' = IF o.kind \in {"skip", "ok", "ValidationError"}
                         THEN "reading" ELSE "raised"
             /\ row_idx' = IF o.kind \in {"skip", "ok", "ValidationError"}
                           THEN row_idx + 1 ELSE row_idx
    /\ UNCHANGED <<importVars, rowVars, invVars, monthVars, entityVars, sheetVars, loadVars, secretVars, configVars>>

\* `return rows`
ReadReturn ==
    /\ rd_pc = "reading"
    /\ row_idx > NumRows
    /\ rd_pc' = "returned"
    /\ UNCHANGED <<row_idx, ws, rd_rows, rd_log, importVars, rowVars, invVars, monthVars, entityVars, sheetVars, loadVars, secretVars, configVars>>

(***************************************************************************)
(* SpecRow actions                                                         *)
(***************************************************************************)
RowIdle == payload = <<>> /\ built = [kind |-> "none", rec |-> None]

Construct ==
    /\ built.kind = "none"
    /\ \E c \in PayloadChoices :
         /\ payload' = PayloadOf(c)
         /\ built' = InvoiceRowModel(PayloadOf(c))
    /\ UNCHANGED <<importVars, readVars, invVars, monthVars, entityVars, sheetVars, loadVars, secretVars, configVars>>

(***************************************************************************)
(* TimeSheetsImporter.run / process_file / _import_rows / _move_to_imported*)
(***************************************************************************)
FileNames == 1 .. MaxFiles

RowFull  == [date |-> Cell("date", 3), travel |-> Cell("num", 1), direct |-> Cell("num", 2),
             indirect |-> Cell("numstr", 4), billable |-> Cell("num", 6)]
RowUndated == [date |-> Empty, travel |-> Cell("num", 1), direct |-> Empty,
               indirect |-> Cell("text", 0), billable |-> Cell("num", 6)]
RowBlank == [date |-> Empty, travel |-> Cell("num", 0), direct |-> Empty,
             indirect |-> Cell("text", 0), billable |-> Empty]
RowNoBillable == [date |-> Cell("date", 3), travel |-> Cell("num", 1), direct |-> Cell("num", 2),
                  indirect |-> Cell("numstr", 4), billable |-> Empty]

\* the table ranges of the workbooks in the source directory
Sheets == {<<RowBlank, RowBlank>>, <<RowFull, RowUndated>>,
           <<RowFull, RowNoBillable>>, <<RowBlank, RowFull>>}

\* the header cells of the workbooks in the source directory
Headers ==
    {GoodHeader,
     [GoodHeader EXCEPT !.reporting_month = Cell("date", 33)],
     [GoodHeader EXCEPT !.reporting_month = Empty],
     [GoodHeader EXCEPT !.service_type = Cell("estr", 0)],
     [GoodHeader EXCEPT !.client_id = Empty],
     [GoodHeader EXCEPT !.employee_id = Cell("num", 0)],
     [GoodHeader EXCEPT !.service_type = Empty]}

Unopened == [state |-> "unopened"]
Corrupt == [state |-> "corrupt"]
Workbooks == [state : {"workbook"}, sheet_present : BOOLEAN, header : Headers, sheet : Sheets]

\* lines 267-269: the header assertions
HeaderOk(header) ==
    /\ Truthy(header.client_id)
    /\ Truthy(header.employee_id)
    /\ header.service_type[1] # "none"

\* lines 257-261: the sheet the importer reads exists
SheetOk(sheet_name_set, wb) == sheet_name_set => wb.sheet_present

\* to_year_month_str: the month of the day, None without a date
to_year_month_str(v) ==
    LET d == to_date(v) IN IF d = None THEN None ELSE Some(Val(d) \div 30)

\* Only what the code reads distinguishes two workbooks: the parts it never
\* reaches are kept at one value.
Relevant(sheet_name_set, wb) ==
    /\ ~sheet_name_set => wb.sheet_present
    /\ ~SheetOk(sheet_name_set, wb) => wb.header = GoodHeader
    /\ ~(SheetOk(sheet_name_set, wb) /\ HeaderOk(wb.header))
          => wb.sheet = <<RowBlank, RowBlank>>

\* sorted(...) of discover_excel_files
RECURSIVE SortedSeq(_)
SortedSeq(S) ==
    IF S = {} THEN <<>>
    ELSE LET m == CHOOSE x \in S : \A y \in S : x <= y
         IN  <<m>> \o SortedSeq(S \ {m})

\* a rollback that leaves the executed inserts in the table
RollbackKeepsRows(db, pending) == db \o pending

\* conn.rollback(): the committed table after the pending inserts are undone
Rollback(db, pending) == db

\* conn.commit(): the committed table after the pending inserts are applied
Commit(db, pending) == db \o pending

\* an exception that ends the loop over the files
AfterCaughtStops(i) == i + MaxFiles + 1

\* run, lines 320-323: the index of the file handled after a caught exception
AfterCaught(i) == i + 1

\* datetime.now() stamps of _move_to_imported
Stamps == {1, 2}

\* process_file, lines 288-295
ExportRowsOf(f, rws, m) ==
    [i \in 1 .. Len(rws) |->
        [reporting_month |-> m, source_file |-> f, row |-> rws[i].row, rec |-> rws[i].rec]]

\* the month of the latest file replaces the one run already has
DerivedMonthOfLastFile(derived, m) == IF m # None THEN m ELSE derived

\* run, lines 318-319: `if derived_month is None and month_str`
DerivedMonth(derived, m) == IF derived = None /\ m # None THEN m ELSE derived

\* what earlier runs left in the 'importiert' folder: nothing, or a file
\* named like file 1 and a later one of the same name that the collision
\* branch (lines 224-226) stored under the stamp 1
ImportedBefore ==
    { {},
      {[name |-> 1, stamp |-> 0, file |-> 0], [name |-> 1, stamp |-> 1, file |-> -1]} }

InitImport ==
    /\ pc = "start"
    /\ profile_sheet \in BOOLEAN
    /\ source_dir \in SUBSET FileNames
    /\ imported_dir \in ImportedBefore
    /\ files = <<>>
    /\ idx = 0
    /\ content = [f \in FileNames |-> Unopened]
    /\ rows = <<>>
    /\ month_str = None
    /\ txn = <<>>
    /\ count = 0
    /\ invoice_data = <<>>
    /\ exc = "none"
    /\ total = 0
    /\ all_export_rows = <<>>
    /\ reporting_month_arg \in {None, Some(7)}
    /\ derived_month = reporting_month_arg       \* run, line 312
    /\ exported = None
    /\ log = <<>>
    /\ moved = {}
    /\ run_no = 1

ImportIdle ==
    /\ pc = "idle" /\ profile_sheet = TRUE /\ source_dir = {} /\ imported_dir = {}
    /\ files = <<>> /\ idx = 0 /\ content = [f \in FileNames |-> Unopened]
    /\ rows = <<>> /\ month_str = None /\ txn = <<>> /\ count = 0
    /\ invoice_data = <<>> /\ exc = "none" /\ total = 0 /\ all_export_rows = <<>>
    /\ derived_month = None /\ exported = None /\ log = <<>> /\ moved = {}
    /\ run_no = 0 /\ reporting_month_arg = None

\* run, lines 308-311
Discover ==
    /\ pc = "start"
    /\ files' = SortedSeq(source_dir)
    /\ idx' = 1
    /\ pc' = "next"
    /\ UNCHANGED <<profile_sheet, source_dir, imported_dir, content, rows, month_str, txn,
                   count, invoice_data, exc, total, all_export_rows, derived_month,
                   exported, log, moved, run_no, reporting_month_arg,
                   readVars, rowVars, invVars, monthVars, entityVars, sheetVars, loadVars, secretVars, configVars>>

\* process_file, lines 255-283 up to the call of _import_rows or _move_to_imported
OpenFile ==
    /\ pc = "next"
    /\ idx <= Len(files)
    /\ LET f == files[idx] IN
       \E wb \in {Corrupt} \cup {w \in Workbooks : Relevant(profile_sheet, w)} :
         /\ content[f] # Unopened => wb = content[f]   \* the file read by an earlier run
         /\ content' = [content EXCEPT ![f] = wb]
         /\ txn' = <<>>
         /\ count' = 0
         /\ IF wb = Corrupt
            THEN /\ exc' = "Exception"          \* load_workbook raises
                 /\ pc' = "raised"
                 /\ UNCHANGED <<rows, month_str, log>>
            ELSE IF ~(SheetOk(profile_sheet, wb) /\ HeaderOk(wb.header))
            THEN /\ exc' = "AssertionError"
                 /\ pc' = "raised"
                 /\ month_str' = IF SheetOk(profile_sheet, wb)
                                 THEN to_year_month_str(wb.header.reporting_month)
                                 ELSE month_str
                 /\ UNCHANGED <<rows, log>>
            ELSE LET r == _read_rows(wb.sheet, wb.header) IN
                 /\ month_str' = to_year_month_str(wb.header.reporting_month)
                 /\ IF r.raised # "none"
                    THEN /\ exc' = "Exception"
                         /\ pc' = "raised"
                         /\ UNCHANGED <<rows, log>>
                    ELSE /\ rows' = r.rows
                         /\ exc' = "none"
                         /\ pc' = IF r.rows = <<>> THEN "move" ELSE "insert"
                         /\ log' = IF r.rows = <<>>
                                   THEN Append(log, [file |-> f, what |-> "no rows"])
                                   ELSE log
    /\ UNCHANGED <<profile_sheet, source_dir, imported_dir, files, idx, invoice_data, total,
                   all_export_rows, derived_month, exported, moved, run_no, reporting_month_arg,
                   readVars, rowVars, invVars, monthVars, entityVars, sheetVars, loadVars, secretVars, configVars>>

\* _import_rows, lines 208-210: one cur.execute that succeeds
InsertRecord ==
    /\ pc = "insert"
    /\ Len(txn) < Len(rows)
    /\ txn' = Append(txn, [src |-> files[idx], row |-> rows[Len(txn) + 1].row,
                           rec |-> rows[Len(txn) + 1].rec])
    /\ count' = count + 1
    /\ UNCHANGED <<pc, profile_sheet, source_dir, imported_dir, files, idx, content, rows,
                   month_str, invoice_data, exc, total, all_export_rows, derived_month,
                   exported, log, moved, run_no, reporting_month_arg,
                   readVars, rowVars, invVars, monthVars, entityVars, sheetVars, loadVars, secretVars, configVars>>

\* _import_rows, lines 212-215: cur.execute or conn.commit raises
InsertFails ==
    /\ pc = "insert"
    /\ invoice_data' = Rollback(invoice_data, txn)
    /\ txn' = <<>>
    /\ log' = Append(log, [file |-> files[idx], what |-> "rollback"])
    /\ exc' = "Exception"
    /\ pc' = "raised"
    /\ UNCHANGED <<profile_sheet, source_dir, imported_dir, files, idx, content, rows,
                   month_str, count, total, all_export_rows, derived_month, exported,
                   moved, run_no, reporting_month_arg,
                   readVars, rowVars, invVars, monthVars, entityVars, sheetVars, loadVars, secretVars, configVars>>

\* _import_rows, lines 211 and 216: conn.commit() and return count
CommitRows ==
    /\ pc = "insert"
    /\ Len(txn) = Len(rows)
    /\ invoice_data' = Commit(invoice_data, txn)
    /\ txn' = <<>>
    /\ pc' = "move"
    /\ UNCHANGED <<profile_sheet, source_dir, imported_dir, files, idx, content, rows,
                   month_str, count, exc, total, all_export_rows, derived_month, exported,
                   log, moved, run_no, reporting_month_arg,
                   readVars, rowVars, invVars, monthVars, entityVars, sheetVars, loadVars, secretVars, configVars>>

\* _move_to_imported (lines 223-228), the rest of process_file (lines 283,
\* 288-298) and the bookkeeping of run (lines 316-319)
MoveFile ==
    /\ pc = "move"
    /\ LET f == files[idx] IN
       \E now \in Stamps :
         LET taken == \E e \in imported_dir : e.name = f /\ e.stamp = 0
             stamp == IF taken THEN now ELSE 0
         IN  /\ imported_dir' = {e \in imported_dir : ~(e.name = f /\ e.stamp = stamp)}
                                  \cup {[name |-> f, stamp |-> stamp, file |-> f]}
             /\ source_dir' = source_dir \ {f}
             /\ moved' = moved \cup {f}
             /\ total' = total + count
             /\ all_export_rows' = all_export_rows \o ExportRowsOf(f, rows, month_str)
             /\ derived_month' = DerivedMonth(derived_month, month_str)
    /\ idx' = idx + 1
    /\ rows' = <<>>
    /\ count' = 0
    /\ pc' = "next"
    /\ UNCHANGED <<profile_sheet, files, content, month_str, txn, invoice_data, exc,
                   exported, log, run_no, reporting_month_arg,
                   readVars, rowVars, invVars, monthVars, entityVars, sheetVars, loadVars, secretVars, configVars>>

\* Path.replace raises (the workbook is open elsewhere, the target is not writable)
MoveFails ==
    /\ pc = "move"
    /\ exc' = "Exception"
    /\ pc' = "raised"
    /\ UNCHANGED <<profile_sheet, source_dir, imported_dir, files, idx, content, rows,
                   month_str, txn, count, invoice_data, total, all_export_rows,
                   derived_month, exported, log, moved, run_no, reporting_month_arg,
                   readVars, rowVars, invVars, monthVars, entityVars, sheetVars, loadVars, secretVars, configVars>>

\* run, lines 320-323: the exception of process_file is logged, the loop goes on
CatchError ==
    /\ pc = "raised"
    /\ log' = Append(log, [file |-> files[idx], what |-> exc])
    /\ exc' = "none"
    /\ idx' = AfterCaught(idx)
    /\ rows' = <<>>
    /\ count' = 0
    /\ pc' = "next"
    /\ UNCHANGED <<profile_sheet, source_dir, imported_dir, files, content, month_str, txn,
                   invoice_data, total, all_export_rows, derived_month, exported, moved,
                   run_no, reporting_month_arg,
                   readVars, rowVars, invVars, monthVars, entityVars, sheetVars, loadVars, secretVars, configVars>>

\* run, lines 325-336: the export of the collected rows and `return total`
FinishRun ==
    /\ pc = "next"
    /\ idx > Len(files)
    /\ exported' = IF all_export_rows # <<>> THEN Some(all_export_rows) ELSE exported
    /\ \E now \in Stamps :
         derived_month' = IF all_export_rows # <<>> /\ derived_month = None
                          THEN Some(now) ELSE derived_month
    /\ pc' = "done"
    /\ UNCHANGED <<profile_sheet, source_dir, imported_dir, files, idx, content, rows,
                   month_str, txn, count, invoice_data, exc, total, all_export_rows, log,
                   moved, run_no, reporting_month_arg,
                   readVars, rowVars, invVars, monthVars, entityVars, sheetVars, loadVars, secretVars, configVars>>

\* main, lines 339-350: the program is started again over the same source
\* directory, 'importiert' folder and database; run(reporting_month=None)
NewRun ==
    /\ pc = "done"
    /\ run_no < MaxRuns
    /\ run_no' = run_no + 1
    /\ pc' = "start"
    /\ files' = <<>>
    /\ idx' = 0
    /\ rows' = <<>>
    /\ month_str' = None
    /\ txn' = <<>>
    /\ count' = 0
    /\ exc' = "none"
    /\ total' = 0
    /\ all_export_rows' = <<>>
    /\ reporting_month_arg' = None
    /\ derived_month' = None
    /\ exported' = None
    /\ log' = <<>>
    /\ moved' = {}
    /\ UNCHANGED <<profile_sheet, source_dir, imported_dir, content, invoice_data,
                   readVars, rowVars, invVars, monthVars, entityVars, sheetVars, loadVars, secretVars, configVars>>

(***************************************************************************)
(* InvoiceProcessor.run                                                    *)
(***************************************************************************)
Columns == {"Stunden", "Km"}

\* str.lower() of the column names
Lower(col) == CASE col = "Stunden" -> "stunden" [] col = "Km" -> "km"

\* the key of a row whose key cell is empty (None / NaN in the DataFrame)
NaN == 0

\* the rows a sheet can hold: payer key, client key and the column values
InvoiceRows == [ZDNR : {1, 2, NaN}, Klient : {1, 2}, Stunden : {1, 2}, Km : {5}]

ColumnFlags == [is_position : BOOLEAN, sum : BOOLEAN]

\* lines 98-103
position_columns(cfg) == {c \in DOMAIN cfg : cfg[c].is_position}

\* lines 104-109
sum_columns(cfg) == {c \in DOMAIN cfg : cfg[c].is_position /\ cfg[c].sum}

\* the sorted keys of DataFrame.groupby(key) over the rows with indices ix;
\* groupby leaves out the rows whose key is missing (dropna=True)
GroupKeys(frame, ix, key) == SortedSeq({frame[i][key] : i \in ix} \ {NaN})

\* the indices of the rows of a group, in frame order
GroupRows(frame, ix, key, k) == {i \in ix : frame[i][key] = k}

RECURSIVE SumOver(_, _, _)
SumOver(frame, ix, col) ==
    IF ix = {} THEN 0
    ELSE LET i == CHOOSE x \in ix : TRUE
         IN  frame[i][col] + SumOver(frame, ix \ {i}, col)

\* totals that are taken over the whole frame instead of the client group
TotalsOfFrame(frame, ix, cfg, cols) ==
    [k \in {Lower(c) : c \in sum_columns(cfg) \cap cols} |->
        LET c == CHOOSE x \in sum_columns(cfg) \cap cols : Lower(x) = k
        IN  SumOver(frame, DOMAIN frame, c)]

\* lines 172-176: the totals of a client group
Totals(frame, ix, cfg, cols) ==
    [k \in {Lower(c) : c \in sum_columns(cfg) \cap cols} |->
        LET c == CHOOSE x \in sum_columns(cfg) \cap cols : Lower(x) = k
        IN  SumOver(frame, ix, c)]

\* create_invoice_id: "<invoice_month>_<client_id>" within one run
create_invoice_id(client_id) == <<"month", client_id>>

\* docx_to_pdf: the PDF of an invoice, named after payer, client and month
docx_to_pdf(payer_key, client_key) == [payer |-> payer_key, client |-> client_key]

\* a list of PDFs that is created once, before the loop over the payers
InvoicesCarriedOver(previous) == previous

\* line 115: invoices_for_payer is a new empty list for every payer group
InvoicesForNewPayer(previous) == <<>>

\* the PDF is put on the list although the block was left by an exception
AppendedAnyway(list, pdf, outcome) == Append(list, pdf)

\* lines 196-205: render_invoice, save or docx_to_pdf raising leaves the
\* log_exceptions block before the two appends of lines 204-205
AfterConversion(list, pdf, outcome) ==
    IF outcome = "render fails" THEN list ELSE Append(list, pdf)

\* a check that lets every DataFrame pass
ColumnsNotChecked(cfg, cols) == TRUE

\* check_data_consistency: no expected column is missing
ColumnsComplete(cfg, cols) == DOMAIN cfg \subseteq cols

InvIdle ==
    /\ inv_pc = "idle" /\ columns_cfg = <<>> /\ df_columns = {} /\ df = <<>>
    /\ payers = <<>> /\ payer_id = 0 /\ clients = <<>> /\ invoices_for_payer = <<>>
    /\ all_invoices = <<>> /\ invoice_list = <<>> /\ contexts = <<>> /\ merged = <<>>
    /\ inv_log = <<>> /\ outputs = {}

InitInvoice ==
    /\ inv_pc = "load"
    /\ columns_cfg \in [Columns -> ColumnFlags]
    /\ df_columns \in {Columns, {"Stunden"}}
    /\ df = <<>> /\ payers = <<>> /\ payer_id = 0 /\ clients = <<>>
    /\ invoices_for_payer = <<>> /\ all_invoices = <<>> /\ invoice_list = <<>>
    /\ contexts = <<>> /\ merged = <<>> /\ inv_log = <<>> /\ outputs = {}

\* line 67: load_data returns the filtered rows of the sheet
LoadData ==
    /\ inv_pc = "load"
    /\ \E n \in 0 .. MaxInvoiceRows : \E frame \in [1 .. n -> InvoiceRows] : df' = frame
    /\ inv_pc' = "check"
    /\ UNCHANGED <<columns_cfg, df_columns, payers, payer_id, clients, invoices_for_payer,
                   all_invoices, invoice_list, contexts, merged, inv_log, outputs,
                   importVars, readVars, rowVars, monthVars, entityVars, sheetVars, loadVars, secretVars, configVars>>

\* lines 70-112: check_data_consistency, then the payer groups
CheckData ==
    /\ inv_pc = "check"
    /\ IF ColumnsComplete(columns_cfg, df_columns)
       THEN /\ payers' = GroupKeys(df, DOMAIN df, "ZDNR")
            /\ inv_pc' = "payer"
       ELSE /\ inv_pc' = "failed"           \* ValueError leaves run
            /\ UNCHANGED payers
    /\ UNCHANGED <<columns_cfg, df_columns, df, payer_id, clients, invoices_for_payer,
                   all_invoices, invoice_list, contexts, merged, inv_log, outputs,
                   importVars, readVars, rowVars, monthVars, entityVars, sheetVars, loadVars, secretVars, configVars>>

\* lines 112-142: the next payer group and its client groups
NextPayer ==
    /\ inv_pc = "payer"
    /\ payers # <<>>
    /\ payer_id' = Head(payers)
    /\ payers' = Tail(payers)
    /\ clients' = GroupKeys(df, GroupRows(df, DOMAIN df, "ZDNR", Head(payers)), "Klient")
    /\ invoices_for_payer' = InvoicesForNewPayer(invoices_for_payer)
    /\ inv_pc' = "client"
    /\ UNCHANGED <<columns_cfg, df_columns, df, all_invoices, invoice_list, contexts, merged,
                   inv_log, outputs, importVars, readVars, rowVars, monthVars, entityVars, sheetVars, loadVars, secretVars, configVars>>

\* lines 142-207: the invoice of one client group; the rendering, the
\* conversion or the removal of the temporary docx may raise inside
\* log_exceptions
ClientInvoice ==
    /\ inv_pc = "client"
    /\ clients # <<>>
    /\ LET client_id == Head(clients)
           payer_data == GroupRows(df, DOMAIN df, "ZDNR", payer_id)
           client_details == GroupRows(df, payer_data, "Klient", client_id)
           ctx == [payer |-> payer_id, client |-> client_id,
                   invoice_id |-> create_invoice_id(client_id),
                   positions |-> client_details,
                   position_columns |-> position_columns(columns_cfg),
                   totals |-> Totals(df, client_details, columns_cfg, df_columns)]
           pdf == docx_to_pdf(payer_id, client_id)
       IN  /\ contexts' = Append(contexts, ctx)
           /\ \E outcome \in {"ok", "render fails", "cleanup fails"} :
                /\ invoices_for_payer' = AfterConversion(invoices_for_payer, pdf, outcome)
                /\ all_invoices' = AfterConversion(all_invoices, pdf, outcome)
                /\ invoice_list' = IF outcome = "ok" THEN Append(invoice_list, ctx)
                                   ELSE invoice_list
                /\ inv_log' = IF outcome = "ok" THEN inv_log
                              ELSE Append(inv_log, [what |-> "pdf", payer |-> payer_id,
                                                    client |-> client_id, exc |-> outcome])
    /\ clients' = Tail(clients)
    /\ UNCHANGED <<inv_pc, columns_cfg, df_columns, df, payers, payer_id, merged, outputs,
                   importVars, readVars, rowVars, monthVars, entityVars, sheetVars, loadVars, secretVars, configVars>>

\* lines 209-213: merge_pdfs of the payer, inside log_exceptions
MergePayer ==
    /\ inv_pc = "client"
    /\ clients = <<>>
    /\ \E written \in BOOLEAN :
         IF invoices_for_payer # <<>> /\ written
         THEN /\ merged' = Append(merged, [payer |-> payer_id, pdfs |-> invoices_for_payer])
              /\ UNCHANGED inv_log
         ELSE /\ inv_log' = Append(inv_log, [what |-> "merge", payer |-> payer_id,
                                             client |-> 0, exc |-> "merge fails"])
              /\ UNCHANGED merged
    /\ inv_pc' = "payer"
    /\ UNCHANGED <<columns_cfg, df_columns, df, payers, payer_id, clients, invoices_for_payer,
                   all_invoices, invoice_list, contexts, outputs, importVars, readVars,
                   rowVars, monthVars, entityVars, sheetVars, loadVars, secretVars, configVars>>

\* lines 215-227: the summary workbook and the ZIP archive
FinishInvoices ==
    /\ inv_pc = "payer"
    /\ payers = <<>>
    /\ outputs' = {[what |-> "summary", of |-> invoice_list],
                   [what |-> "zip", of |-> all_invoices]}
    /\ inv_pc' = "done"
    /\ UNCHANGED <<columns_cfg, df_columns, df, payers, payer_id, clients, invoices_for_payer,
                   all_invoices, invoice_list, contexts, merged, inv_log, importVars,
                   readVars, rowVars, monthVars, entityVars, sheetVars, loadVars, secretVars, configVars>>

(***************************************************************************)
(* get_month_period and MonthPeriod                                        *)
(*                                                                         *)
(* A string is a sequence of tokens: a run of digits that int() reads as n,*)
(* a dot or a dash.  A month string is <<month digits, separator, year>>;  *)
(* a datetime is [year, month, day] and its arithmetic goes through the    *)
(* proleptic Gregorian ordinal, as in CPython's datetime.                  *)
(***************************************************************************)
Years == {1900, 2000, 2023, 2024, 2100}
Digits(n) == <<"digits", n>>
Dot == <<".", 0>>
Dash == <<"-", 0>>
MonthStrings == {<<Digits(m), sep, Digits(y)>> : m \in 1 .. 12, sep \in {Dot, Dash}, y \in Years}

\* int(str) of a run of digits
int(part) == part[2]

IsLeap(y) == (y % 4 = 0 /\ y % 100 # 0) \/ y % 400 = 0

DaysInMonth(y, m) ==
    CASE m \in {1, 3, 5, 7, 8, 10, 12} -> 31
      [] m \in {4, 6, 9, 11} -> 30
      [] OTHER -> IF IsLeap(y) THEN 29 ELSE 28

DaysBeforeYear(y) == (y - 1) * 365 + (y - 1) \div 4 - (y - 1) \div 100 + (y - 1) \div 400

RECURSIVE DaysBeforeMonth(_, _)
DaysBeforeMonth(y, m) ==
    IF m = 1 THEN 0 ELSE DaysBeforeMonth(y, m - 1) + DaysInMonth(y, m - 1)

\* datetime(year, month, day)
datetime(y, m, d) == [year |-> y, month |-> m, day |-> d]

toordinal(dt) == DaysBeforeYear(dt.year) + DaysBeforeMonth(dt.year, dt.month) + dt.day

fromordinal(n) ==
    LET y == CHOOSE yy \in 1 .. 9999 : DaysBeforeYear(yy) < n /\ n <= DaysBeforeYear(yy + 1)
        k == n - DaysBeforeYear(y)
        m == CHOOSE mm \in 1 .. 12 :
                DaysBeforeMonth(y, mm) < k /\ k <= DaysBeforeMonth(y, mm) + DaysInMonth(y, mm)
    IN  datetime(y, m, k - DaysBeforeMonth(y, m))

\* dt - timedelta(days=n)
MinusDays(dt, n) == fromordinal(toordinal(dt) - n)

\* str.replace("-", ".")
ReplaceDash(str) == [i \in DOMAIN str |-> IF str[i] = Dash THEN Dot ELSE str[i]]

\* str.split("."): the parts between the dots
SplitDots(str) == SelectSeq(str, LAMBDA c : c # Dot)

\* the first and the last day of the month, as all three variants compute them
MonthBounds(str) ==
    LET parts == SplitDots(ReplaceDash(str))
        monat == int(parts[1])
        jahr == int(parts[2])
        start == datetime(jahr, monat, 1)
        end == IF monat = 12 THEN datetime(jahr, 12, 31)
               ELSE MinusDays(datetime(jahr, monat + 1, 1), 1)
    IN  [start |-> start, end |-> end]

\* module/utils.py, MonthPeriod.end_must_be_after_start(cls, v, values)
end_must_be_after_start(v, values) ==
    IF HasGet(values)
    THEN LET start == Get(values, "start", None)
         IN  IF start # None /\ toordinal(v) < toordinal(Val(start)) THEN Invalid ELSE Ok(v)
    ELSE Raise("AttributeError")

\* unused/month_period.py, MonthPeriod.end_must_be_after_start(cls, v, info)
end_must_be_after_start_info(v, info) ==
    LET start == IF "start" \in DOMAIN info.data THEN info.data["start"] ELSE None
    IN  IF start # None /\ toordinal(v) < toordinal(Val(start)) THEN Invalid ELSE Ok(v)

\* MonthPeriod(start=..., end=...) around the outcome r of the validator of end
MonthPeriod(start, end, r) ==
    CASE r.st = "ok" -> [kind |-> "MonthPeriod", start |-> start, end |-> r.v]
      [] r.st = "invalid" -> [kind |-> "ValidationError", start |-> None, end |-> None]
      [] OTHER -> [kind |-> r.st, start |-> None, end |-> None]

\* strftime("%d.%m.%Y")
strftime(dt) == <<Digits(dt.day), Dot, Digits(dt.month), Dot, Digits(dt.year)>>

NoPeriod == [kind |-> "none", start |-> None, end |-> None]

MonthIdle == mp_pc = "idle" /\ abrechnungsmonat = <<>> /\ period = NoPeriod

InitMonth == mp_pc = "call" /\ abrechnungsmonat \in MonthStrings /\ period = NoPeriod

\* module/utils.py: get_month_period
get_month_period ==
    /\ mp_pc = "call"
    /\ LET b == MonthBounds(abrechnungsmonat)
           info == ValidationInfo([start |-> Some(b.start)])
       IN  period' = MonthPeriod(b.start, b.end, end_must_be_after_start(b.end, info))
    /\ mp_pc' = IF period'.kind = "MonthPeriod" THEN "returned" ELSE "raised"
    /\ UNCHANGED <<abrechnungsmonat, importVars, readVars, rowVars, invVars, entityVars, sheetVars, loadVars, secretVars, configVars>>

\* unused/month_period.py: get_month_period
get_month_period_unused ==
    /\ mp_pc = "call"
    /\ LET b == MonthBounds(abrechnungsmonat)
           info == ValidationInfo([start |-> Some(b.start)])
       IN  period' = MonthPeriod(b.start, b.end, end_must_be_after_start_info(b.end, info))
    /\ mp_pc' = IF period'.kind = "MonthPeriod" THEN "returned" ELSE "raised"
    /\ UNCHANGED <<abrechnungsmonat, importVars, readVars, rowVars, invVars, entityVars, sheetVars, loadVars, secretVars, configVars>>

\* rechnungen/module/utils.py: get_month_period
get_month_period_rechnungen ==
    /\ mp_pc = "call"
    /\ LET b == MonthBounds(abrechnungsmonat)
       IN  period' = [kind |-> "tuple", start |-> strftime(b.start), end |-> strftime(b.end)]
    /\ mp_pc' = "returned"
    /\ UNCHANGED <<abrechnungsmonat, importVars, readVars, rowVars, invVars, entityVars, sheetVars, loadVars, secretVars, configVars>>

(***************************************************************************)
(* Entity (LegalPerson, PrivatePerson): zip, city and zip_city             *)
(*                                                                         *)
(* A str is the sequence of its characters.  A keyword argument is <<>>    *)
(* when the caller does not pass it and <<s>> when it passes the str s.    *)
(***************************************************************************)
MaxStrLen == 3
Chars == {" ", "8", "Z"}

RECURSIVE StringsUpTo(_)
StringsUpTo(n) ==
    IF n = 0 THEN {<<>>}
    ELSE LET shorter == StringsUpTo(n - 1)
         IN  shorter \cup {Append(t, c) : t \in shorter, c \in Chars}

\* str.strip()
RECURSIVE lstrip(_)
lstrip(str) == IF str # <<>> /\ Head(str) = " " THEN lstrip(Tail(str)) ELSE str

RECURSIVE rstrip(_)
rstrip(str) ==
    IF str # <<>> /\ str[Len(str)] = " " THEN rstrip(SubSeq(str, 1, Len(str) - 1)) ELSE str

strip(str) == rstrip(lstrip(str))

\* str.split(" ", 1)
split_once(str) ==
    IF \E i \in DOMAIN str : str[i] = " "
    THEN LET i == CHOOSE k \in DOMAIN str :
                     str[k] = " " /\ \A j \in 1 .. k - 1 : str[j] # " "
         IN  <<SubSeq(str, 1, i - 1), SubSeq(str, i + 1, Len(str))>>
    ELSE <<str>>

\* f"{zip} {city}"
zip_space_city(zip, city) == zip \o <<" ">> \o city

\* the field after pydantic or the dataclass applied the default ""
FieldOr(kw, k) == IF kw[k] = <<>> THEN <<>> ELSE kw[k][1]

EntityOf(zip, city, zip_city) ==
    [kind |-> "Entity", zip |-> zip, city |-> city, zip_city |-> zip_city]

EntityRaised(e) == [kind |-> e, zip |-> <<>>, city |-> <<>>, zip_city |-> <<>>]

\* shared_modules/entity.py: Entity.sync_zip_city (model_validator, mode="after")
sync_zip_city(self) ==
    IF self.zip_city # <<>>
    THEN LET parts == split_once(strip(self.zip_city))
         IN  EntityOf(parts[1], IF Len(parts) > 1 THEN parts[2] ELSE <<>>, self.zip_city)
    ELSE IF self.zip # <<>> \/ self.city # <<>>
    THEN EntityOf(self.zip, self.city, strip(zip_space_city(self.zip, self.city)))
    ELSE self

\* module/entity.py: Entity.split_zip_city (field_validator of zip_city,
\* mode="after"), applied to the fields validated so far
split_zip_city(v, values) ==
    IF ~HasGet(values)
    THEN IF v # <<>> THEN EntityRaised("TypeError")     \* values["zip"] = ...
         ELSE EntityRaised("AttributeError")            \* values.get("zip", "")
    ELSE IF v # <<>>
    THEN LET parts == split_once(strip(v))
         IN  EntityOf(parts[1], IF Len(parts) = 2 THEN parts[2] ELSE <<>>, v)
    ELSE EntityOf(values.data.zip, values.data.city, v)

\* rechnungen/module/entity.py: Entity.__post_init__
post_init(self) ==
    IF self.zip_city # <<>> /\ (self.zip = <<>> \/ self.city = <<>>)
    THEN LET parts == split_once(strip(self.zip_city))
         IN  EntityOf(parts[1], IF Len(parts) = 2 THEN parts[2] ELSE <<>>, self.zip_city)
    ELSE self

\* the keyword arguments of the constructor calls
Kwargs ==
    [zip : {<<>>, <<<<>>>>, <<<<"8">>>>},
     city : {<<>>, <<<<"Z">>>>, <<<<"Z", " ", "Z">>>>},
     zip_city : {<<>>} \cup {<<t>> : t \in StringsUpTo(MaxStrLen)}]

NoKwargs == [zip |-> <<>>, city |-> <<>>, zip_city |-> <<>>]

EntityIdle == en_pc = "idle" /\ kwargs = NoKwargs /\ entity = EntityRaised("none")

InitEntity == en_pc = "call" /\ kwargs \in Kwargs /\ entity = EntityRaised("none")

\* shared_modules/entity.py: Entity(**kwargs)
Entity_shared ==
    /\ en_pc = "call"
    /\ entity' = sync_zip_city(EntityOf(FieldOr(kwargs, "zip"), FieldOr(kwargs, "city"),
                                        FieldOr(kwargs, "zip_city")))
    /\ en_pc' = "built"
    /\ UNCHANGED <<kwargs, importVars, readVars, rowVars, invVars, monthVars, sheetVars, loadVars, secretVars, configVars>>

\* module/entity.py: Entity(**kwargs); the validator of zip_city runs only
\* when zip_city is passed
Entity_module ==
    /\ en_pc = "call"
    /\ entity' = IF kwargs.zip_city = <<>>
                 THEN EntityOf(FieldOr(kwargs, "zip"), FieldOr(kwargs, "city"), <<>>)
                 ELSE split_zip_city(kwargs.zip_city[1],
                                     ValidationInfo([zip |-> FieldOr(kwargs, "zip"),
                                                     city |-> FieldOr(kwargs, "city")]))
    /\ en_pc' = IF entity'.kind = "Entity" THEN "built" ELSE "raised"
    /\ UNCHANGED <<kwargs, importVars, readVars, rowVars, invVars, monthVars, sheetVars, loadVars, secretVars, configVars>>

\* rechnungen/module/entity.py: Entity(**kwargs)
Entity_rechnungen ==
    /\ en_pc = "call"
    /\ entity' = post_init(EntityOf(FieldOr(kwargs, "zip"), FieldOr(kwargs, "city"),
                                    FieldOr(kwargs, "zip_city")))
    /\ en_pc' = "built"
    /\ UNCHANGED <<kwargs, importVars, readVars, rowVars, invVars, monthVars, sheetVars, loadVars, secretVars, configVars>>

(***************************************************************************)
(* TimeSheetFactory.create_reporting_sheet (and the older                  *)
(* ReportingFactory.create_reporting_sheet), TimeSheetImportProfile and    *)
(* TimeSheetsImporter._read_header                                         *)
(***************************************************************************)
HeaderFields == {"employee_name", "emp_id", "reporting_month", "allowed_hours_per_month",
                 "service_type", "short_code", "client_id"}

Addresses == {"C5", "G5", "C6", "C7", "G7", "C8", "G8", "H8"}

\* pydantic_models/data/header_cells.py: the defaults of HeaderCells, which are
\* also the addresses ReportingFactory.create_reporting_sheet writes
HeaderCells ==
    [employee_name |-> "C5", emp_id |-> "G5", reporting_month |-> "C6",
     allowed_hours_per_month |-> "C7", service_type |-> "G7", short_code |-> "C8",
     client_id |-> "G8"]

\* templates.time_sheet_header_cells of the configuration
TimeSheetHeaderCells ==
    {HeaderCells,
     [HeaderCells EXCEPT !.emp_id = "G8", !.client_id = "G5"],
     [HeaderCells EXCEPT !.client_id = "H8"]}

\* HeaderCells.from_config: every address is copied from the configuration
HeaderCells_from_config(cfg) == [f \in HeaderFields |-> cfg[f]]

\* pydantic_models/data/table_range.py: TableRange.end_after_start(cls, v, values)
end_after_start(v, values) ==
    IF HasGet(values)
    THEN IF v >= Get(values, "start_row", 10) THEN Ok(v) ELSE Invalid
    ELSE Raise("AttributeError")

\* TableRange(start_row=..., end_row=..., ...): the validator of end_row runs
\* because end_row is passed
TableRange(start_row, end_row) ==
    LET r == end_after_start(end_row, ValidationInfo([start_row |-> start_row]))
    IN  CASE r.st = "ok" -> [kind |-> "TableRange", start_row |-> start_row, end_row |-> r.v]
          [] r.st = "invalid" -> [kind |-> "ValidationError", start_row |-> 0, end_row |-> 0]
          [] OTHER -> [kind |-> r.st, start_row |-> 0, end_row |-> 0]

\* TableRange(): the defaults, no validator runs
TableRangeDefault == [kind |-> "TableRange", start_row |-> 10, end_row |-> 28]

\* TimeSheetImportProfile.from_config
from_config(templates_cfg) ==
    LET rng == TableRange(templates_cfg.start_row, templates_cfg.end_row)
    IN  IF rng.kind = "TableRange"
        THEN [kind |-> "profile", source |-> "config",
              header_cells |-> HeaderCells_from_config(templates_cfg.header_cells),
              table_range |-> rng]
        ELSE [kind |-> rng.kind, source |-> "config", header_cells |-> HeaderCells,
              table_range |-> rng]

\* the header values and the month a sheet is created for
HeaderData ==
    [client_id : {1, 2}, employee_id : {3}, service_type : {5}, short_code : {6},
     allowed_hours_per_month : {7}, employee_name : {8}, reporting_month_dt : {3, 33}]

\* the sheet protection of the template
TemplateProtection == {[sheet |-> FALSE, password |-> None],
                       [sheet |-> TRUE, password |-> Some("template")]}

\* the sheet_password argument of create_reporting_sheet
PasswordArgs == {None, Some(""), Some("pw")}

\* self.sheet_password / config.sheet_password: never empty after __init__
OwnPassword == "secret"

\* a sheet whose protection is switched off for writing and never restored
protection_left_off(protection, sheet_password) == [sheet |-> FALSE, password |-> None]

\* TimeSheetFactory.create_reporting_sheet, lines 198-208
protection_after(protection, sheet_password) ==
    IF protection.sheet
    THEN [sheet |-> TRUE,
          password |-> IF sheet_password # None /\ Val(sheet_password) # ""
                       THEN sheet_password ELSE Some(OwnPassword)]
    ELSE protection

\* ReportingFactory.create_reporting_sheet, lines 129-157
protection_after_zeiterfassungen(protection, sheet_password) ==
    IF protection.sheet
    THEN [sheet |-> TRUE,
          password |-> IF sheet_password # None THEN sheet_password ELSE Some(OwnPassword)]
    ELSE protection

\* lines 188-196: the header cells after the assignments
HeaderWritten(cells, hd) ==
    [a \in Addresses |->
        CASE a = cells.client_id -> Cell("text", hd.client_id)
          [] a = cells.short_code -> Cell("text", hd.short_code)
          [] a = cells.service_type -> Cell("text", hd.service_type)
          [] a = cells.allowed_hours_per_month -> Cell("num", hd.allowed_hours_per_month)
          [] a = cells.reporting_month -> Cell("datetime", hd.reporting_month_dt)
          [] a = cells.emp_id -> Cell("text", hd.employee_id)
          [] a = cells.employee_name -> Cell("text", hd.employee_name)
          [] OTHER -> Empty]

\* _read_header and process_file, lines 262-263
_read_header(worksheet, cells) ==
    [employee_fullname |-> worksheet[cells.employee_name],
     employee_id |-> worksheet[cells.emp_id],
     reporting_month |-> worksheet[cells.reporting_month],
     allowed_hours_per_month |-> worksheet[cells.allowed_hours_per_month],
     service_type |-> worksheet[cells.service_type],
     short_code |-> worksheet[cells.short_code],
     client_id |-> worksheet[cells.client_id],
     month_str |-> to_year_month_str(worksheet[cells.reporting_month])]

SheetArgs ==
    [header_cells : TimeSheetHeaderCells, start_row : {10}, end_row : {28},
     template : TemplateProtection, header_data : HeaderData, sheet_password : PasswordArgs]

NoSheetArgs ==
    [header_cells |-> HeaderCells, start_row |-> 10, end_row |-> 28,
     template |-> [sheet |-> FALSE, password |-> None],
     header_data |-> CHOOSE hd \in HeaderData : hd.client_id = 1 /\ hd.reporting_month_dt = 3,
     sheet_password |-> None]

NoProfile == [kind |-> "none", source |-> "none", header_cells |-> HeaderCells,
              table_range |-> TableRangeDefault]

SheetIdle ==
    /\ sh_pc = "idle" /\ sheet_args = NoSheetArgs /\ out_wb = None
    /\ imp_profile = NoProfile /\ imp_header = None

InitSheet ==
    /\ sh_pc = "create" /\ sheet_args \in SheetArgs /\ out_wb = None
    /\ imp_profile = NoProfile /\ imp_header = None

\* time_sheets/modules/time_sheet_factory.py: create_reporting_sheet
create_reporting_sheet ==
    /\ sh_pc = "create"
    /\ \E outcome \in {"saved", "load_workbook raises", "save raises"} :
         IF outcome = "saved"
         THEN /\ out_wb' = Some([by |-> "TimeSheetFactory",
                                  cells |-> HeaderWritten(sheet_args.header_cells,
                                                          sheet_args.header_data),
                                  protection |-> protection_after(sheet_args.template,
                                                                 sheet_args.sheet_password)])
              /\ sh_pc' = "created"
         ELSE /\ sh_pc' = "create raised"       \* RuntimeError
              /\ UNCHANGED out_wb
    /\ UNCHANGED <<sheet_args, imp_profile, imp_header, importVars, readVars, rowVars,
                   invVars, monthVars, entityVars, loadVars, secretVars, configVars>>

\* zeiterfassungen/modules/reporting_factory.py: create_reporting_sheet
create_reporting_sheet_zeiterfassungen ==
    /\ sh_pc = "create"
    /\ \E outcome \in {"saved", "load_workbook raises", "save raises"} :
         IF outcome = "saved"
         THEN /\ out_wb' = Some([by |-> "ReportingFactory",
                                  cells |-> HeaderWritten(HeaderCells, sheet_args.header_data),
                                  protection |-> protection_after_zeiterfassungen(
                                                    sheet_args.template,
                                                    sheet_args.sheet_password)])
              /\ sh_pc' = "created"
         ELSE /\ sh_pc' = "create raised"       \* RuntimeError
              /\ UNCHANGED out_wb
    /\ UNCHANGED <<sheet_args, imp_profile, imp_header, importVars, readVars, rowVars,
                   invVars, monthVars, entityVars, loadVars, secretVars, configVars>>

\* TimeSheetsImporter(config): the profile is built from the configuration
ProfileFromConfig ==
    /\ sh_pc = "created"
    /\ imp_profile' = from_config(sheet_args)
    /\ sh_pc' = IF imp_profile'.kind = "profile" THEN "profile" ELSE "profile raised"
    /\ UNCHANGED <<sheet_args, out_wb, imp_header, importVars, readVars, rowVars,
                   invVars, monthVars, entityVars, loadVars, secretVars, configVars>>

\* TimeSheetsImporter(config, profile): a profile of defaults is passed in
ProfileGiven ==
    /\ sh_pc = "created"
    /\ imp_profile' = [kind |-> "profile", source |-> "argument",
                       header_cells |-> HeaderCells, table_range |-> TableRangeDefault]
    /\ sh_pc' = "profile"
    /\ UNCHANGED <<sheet_args, out_wb, imp_header, importVars, readVars, rowVars,
                   invVars, monthVars, entityVars, loadVars, secretVars, configVars>>

\* process_file, lines 262-263, on the out_wb sheet
ReadHeader ==
    /\ sh_pc = "profile"
    /\ imp_header' = Some(_read_header(Val(out_wb).cells, imp_profile.header_cells))
    /\ sh_pc' = "header read"
    /\ UNCHANGED <<sheet_args, out_wb, imp_profile, importVars, readVars, rowVars,
                   invVars, monthVars, entityVars, loadVars, secretVars, configVars>>

(***************************************************************************)
(* DataLoader.load_data and InvoiceFilter                                  *)
(*                                                                         *)
(* A worksheet is the sequence of its rows; a data row is a record of the  *)
(* cells right of the first column.  A filter value carries its Python     *)
(* type, since load_data branches on isinstance.                           *)
(***************************************************************************)
\* the header row of the workbook: columns named like the filter attributes,
\* or the names of the invoice workbook
AttributeNames == {"payer", "client", "service_requester", "service_date"}
WorkbookNames == {"ZDNR", "Klient-Nr.", "Leistungsbesteller", "Leistungsdatum"}

MetaRow == [kind |-> "meta"]
HeaderRow(names) == [kind |-> "header", names |-> names]
DataRows ==
    [kind : {"data"}, payer : {1, 2}, client : {1}, service_requester : {"(Leer)", "A"},
     service_date : {5, 20}]

\* set_service_date_range, lines 52-61: the MonthPeriod of invoice_month
ServicePeriod == [kind |-> "MonthPeriod", start |-> 10, end |-> 40]

Str(x) == [kind |-> "str", v |-> x]
List(x) == [kind |-> "list", v |-> x]

\* InvoiceFilter, lines 28-34, after its validators
InvoiceFilters ==
    [invoice_month : {Some(Str("month"))},
     payer : {None, Some(Str(1))},
     client : {None},
     service_requester : {None, Some(Str("A")), Some(Str(""))},
     service_date_range : {Some(ServicePeriod)},
     payer_list : {None, Some(List({2}))},
     client_list : {None}]

FilterKeys == <<"invoice_month", "payer", "client", "service_requester",
                "service_date_range", "payer_list", "client_list">>

\* self.filter.__dict__ (rechnungen) keeps the MonthPeriod object,
\* self.filter.model_dump() (invoices) turns it into a dict
FilterItem(variant, value) ==
    IF value # None /\ Val(value).kind = "MonthPeriod" /\ variant = "invoices"
    THEN Some([Val(value) EXCEPT !.kind = "dict"])
    ELSE value

\* isinstance(value, tuple) / isinstance(value, (list, tuple)), and len(value) == 2
IsPair(variant, v) ==
    /\ v.kind \in (IF variant = "invoices" THEN {"list", "tuple"} ELSE {"tuple"})
    /\ IF v.kind = "list" THEN Cardinality(v.v) = 2 ELSE TRUE

\* isinstance(value, (list, tuple))
IsList(v) == v.kind \in {"list", "tuple"}

EndsWithRange(key) == key \in {"service_date_range"}
EndsWithList(key) == key \in {"payer_list", "client_list"}
WithoutSuffix(key) ==
    CASE key = "service_date_range" -> "service_date"
      [] key = "payer_list" -> "payer"
      [] key = "client_list" -> "client"
      [] OTHER -> key

\* df[col] of one row
ColumnValue(row, col) ==
    CASE col = "payer" -> row.payer
      [] col = "client" -> row.client
      [] col = "service_requester" -> row.service_requester
      [] col = "service_date" -> row.service_date
      [] OTHER -> "no such column"

\* df.replace("(Leer)", "")
ReplaceLeer(row) ==
    [row EXCEPT !.service_requester = IF @ = "(Leer)" THEN "" ELSE @]

\* one iteration of the loop over the filter items
FilterStep(variant, names, frame, key, item) ==
    IF item = None THEN frame
    ELSE LET value == Val(item) IN
         IF EndsWithRange(key) /\ IsPair(variant, value)
         THEN IF WithoutSuffix(key) \in names
              THEN SelectSeq(frame, LAMBDA r :
                       value.start <= ColumnValue(r, WithoutSuffix(key))
                         /\ ColumnValue(r, WithoutSuffix(key)) <= value.end)
              ELSE frame
         ELSE IF EndsWithList(key) /\ IsList(value)
         THEN IF WithoutSuffix(key) \in names
              THEN SelectSeq(frame, LAMBDA r : ColumnValue(r, WithoutSuffix(key)) \in value.v)
              ELSE frame
         ELSE IF key \in names
              THEN SelectSeq(frame, LAMBDA r : ColumnValue(r, key) = value.v)
              ELSE frame

RECURSIVE FilterFrom(_, _, _, _, _)
FilterFrom(variant, names, frame, flt, k) ==
    IF k > Len(FilterKeys) THEN frame
    ELSE FilterFrom(variant, names,
                    FilterStep(variant, names, frame, FilterKeys[k],
                               FilterItem(variant, flt[FilterKeys[k]])),
                    flt, k + 1)

\* load_data: three rows skipped, the header row, the data rows, the filters
load_data(variant, sheet, flt) ==
    LET names == sheet[4].names
        data == [i \in 1 .. Len(sheet) - 4 |-> ReplaceLeer(sheet[i + 4])]
    IN  [columns |-> names, rows |-> FilterFrom(variant, names, data, flt, 1)]

Worksheets ==
    UNION { { <<MetaRow, MetaRow, MetaRow, HeaderRow(names)>> \o d :
                 d \in [1 .. n -> DataRows] } :
            n \in 0 .. MaxDataRows, names \in {AttributeNames, WorkbookNames} }

NoFrame == [columns |-> {}, rows |-> <<>>]
LoadIdle ==
    /\ ld_pc = "idle" /\ ld_sheet = <<>> /\ ld_df = NoFrame
    /\ ld_filter = [k \in {} |-> None]

InitLoad ==
    /\ ld_pc = "call"
    /\ ld_sheet \in Worksheets
    /\ ld_filter \in InvoiceFilters
    /\ ld_df = NoFrame

\* rechnungen/module/data_loader.py
load_data_rechnungen ==
    /\ ld_pc = "call"
    /\ ld_df' = load_data("rechnungen", ld_sheet, ld_filter)
    /\ ld_pc' = "returned"
    /\ UNCHANGED <<ld_sheet, ld_filter, importVars, readVars, rowVars, invVars, monthVars,
                   entityVars, sheetVars, secretVars, configVars>>

\* invoices/modules/data_loader.py
load_data_invoices ==
    /\ ld_pc = "call"
    /\ ld_df' = load_data("invoices", ld_sheet, ld_filter)
    /\ ld_pc' = "returned by invoices"
    /\ UNCHANGED <<ld_sheet, ld_filter, importVars, readVars, rowVars, invVars, monthVars,
                   entityVars, sheetVars, secretVars, configVars>>

(***************************************************************************)
(* get_sheet_password, Config.get_secret and Config.get_decrypted_secret   *)
(*                                                                         *)
(* A string of the environment is [key, plain]: a Fernet token names the   *)
(* key it was made with and the text it holds, any other string has no key.*)
(***************************************************************************)
FernetKeys == {"key A", "key B"}
Token(key, plain) == [key |-> key, plain |-> plain]
Text(str) == [key |-> "", plain |-> str]

\* what the environment (and .env) can hold
Environments ==
    [SHEET_PASSWORD_ENC : {None, Some(Text("")), Some(Text("garbage"))}
                            \cup {Some(Token("key A", plain)) : plain \in {"", "enc pw"}},
     FERNET_KEY : {None, Some(Text("")), Some(Text("malformed"))}
                    \cup {Some(Text(k)) : k \in FernetKeys},
     SHEET_PASSWORD : {None, Some(Text("")), Some(Text("plain pw"))}]

\* `not x` on an Optional[str]
Falsy(o) == o = None \/ Val(o) = Text("")

\* Config.get_secret: os.getenv(key, None)
get_secret(env, key) == env[key]

\* Fernet(fernet_key.encode()).decrypt(encrypted.encode()).decode()
decrypt(fernet_key, encrypted) ==
    IF fernet_key.plain \notin FernetKeys THEN Raise("ValueError")
    ELSE IF encrypted.key = fernet_key.plain
         THEN Ok(Some(Text(encrypted.plain)))
         ELSE Raise("InvalidToken")

\* Config.get_decrypted_secret, lines 224-243
get_decrypted_secret(env, key) ==
    LET encrypted == env[key]
        fernet_key == env["FERNET_KEY"]
    IN  IF Falsy(encrypted) \/ Falsy(fernet_key) THEN Ok(None)
        ELSE LET d == decrypt(Val(fernet_key), Val(encrypted))
             IN  IF d.st = "ok" THEN d ELSE Raise("RuntimeError: decrypt")

\* get_sheet_password (both processors have the same body)
get_sheet_password(env) ==
    LET d == get_decrypted_secret(env, "SHEET_PASSWORD_ENC") IN
    IF d.st # "ok" THEN d
    ELSE LET pw == IF Falsy(d.v) THEN get_secret(env, "SHEET_PASSWORD") ELSE d.v
         IN  IF Falsy(pw) THEN Raise("RuntimeError: missing") ELSE Ok(pw)

SecretIdle == pw_pc = "idle" /\ environ = <<>> /\ sheet_pw = Raise("none")

InitSecret == pw_pc = "call" /\ environ \in Environments /\ sheet_pw = Raise("none")

\* time_sheets/modules/time_sheet_batch_processor.py
get_sheet_password_time_sheets ==
    /\ pw_pc = "call"
    /\ sheet_pw' = get_sheet_password(environ)
    /\ pw_pc' = "returned to TimeSheetBatchProcessor"
    /\ UNCHANGED <<environ, importVars, readVars, rowVars, invVars, monthVars, entityVars,
                   sheetVars, loadVars, configVars>>

\* zeiterfassungen/modules/reporting_processor.py
get_sheet_password_zeiterfassungen ==
    /\ pw_pc = "call"
    /\ sheet_pw' = get_sheet_password(environ)
    /\ pw_pc' = "returned to ReportingProcessor"
    /\ UNCHANGED <<environ, importVars, readVars, rowVars, invVars, monthVars, entityVars,
                   sheetVars, loadVars, configVars>>

(***************************************************************************)
(* Config: rechnungen/module/config.py, module/config.py (Config() and     *)
(* load(path)) and shared_modules/config.py (Config(path))                 *)
(***************************************************************************)
\* what is found at config_path when it is opened: no file, a configuration,
\* another configuration, or YAML that the pydantic models reject
ConfigFiles == {"missing", "config A", "config B", "invalid"}

\* the attributes __new__ gives a new object: _config = None / _initialized = False;
\* raw is what the sections parsed first hold (logging, structure, ...), parsed
\* what the sections parsed last hold; the older classes have one _config
NewConfig == [raw |-> None, parsed |-> None, initialized |-> FALSE]

\* load(config_path) of the two older classes, and __init__(config_path) of
\* shared_modules: the attributes afterwards, and the exception raised
Load(variant, self, file) ==
    CASE file = "missing" -> [self |-> self, exc |-> "FileNotFoundError"]
      [] file # "missing" /\ variant = "rechnungen" ->        \* lines 33-34
            [self |-> [self EXCEPT !.raw = Some(file), !.parsed = Some(file)],
             exc |-> "none"]
      [] file # "missing" /\ variant = "module" ->            \* lines 79-86
            IF file = "invalid" THEN [self |-> self, exc |-> "ValueError"]
            ELSE [self |-> [self EXCEPT !.raw = Some(file), !.parsed = Some(file)],
                  exc |-> "none"]
      [] OTHER ->                                              \* lines 45-64
            IF file = "invalid"
            THEN [self |-> [self EXCEPT !.raw = Some(file)], exc |-> "ValidationError"]
            ELSE [self |-> [raw |-> Some(file), parsed |-> Some(file),
                            initialized |-> TRUE],
                  exc |-> "none"]

ConfigIdle ==
    /\ cf_variant = "none" /\ cf_instance = None /\ cf_created = 0 /\ cf_calls = 0
    /\ cf_first = None /\ cf_result = "none"

InitConfig ==
    /\ cf_variant \in {"rechnungen", "module", "shared_modules"}
    /\ cf_instance = None /\ cf_created = 0 /\ cf_calls = 0
    /\ cf_first = None /\ cf_result = "none"

\* Config() of rechnungen/module/config.py and module/config.py: __new__
Config_new ==
    /\ cf_variant \in {"rechnungen", "module"}
    /\ cf_calls < MaxCalls
    /\ cf_calls' = cf_calls + 1
    /\ cf_instance' = IF cf_instance = None THEN Some(NewConfig) ELSE cf_instance
    /\ cf_created' = IF cf_instance = None THEN cf_created + 1 ELSE cf_created
    /\ cf_result' = "instance"
    /\ UNCHANGED <<cf_variant, cf_first, importVars, readVars, rowVars, invVars, monthVars,
                   entityVars, sheetVars, loadVars, secretVars>>

\* Config().load(config_path) of rechnungen/module/config.py and module/config.py
Config_load ==
    /\ cf_variant \in {"rechnungen", "module"}
    /\ cf_instance # None
    /\ cf_calls < MaxCalls
    /\ cf_calls' = cf_calls + 1
    /\ \E file \in ConfigFiles :
         LET r == Load(cf_variant, Val(cf_instance), file) IN
         /\ cf_instance' = Some(r.self)
         /\ cf_result' = IF r.exc = "none" THEN "loaded" ELSE r.exc
         /\ cf_first' = IF cf_first = None /\ r.exc = "none" THEN r.self.parsed
                         ELSE cf_first
    /\ UNCHANGED <<cf_variant, cf_created, importVars, readVars, rowVars, invVars,
                   monthVars, entityVars, sheetVars, loadVars, secretVars>>

\* Config(config_path) of shared_modules/config.py: __new__, then __init__
Config_shared ==
    /\ cf_variant = "shared_modules"
    /\ cf_calls < MaxCalls
    /\ cf_calls' = cf_calls + 1
    /\ cf_created' = IF cf_instance = None THEN cf_created + 1 ELSE cf_created
    /\ \E file \in ConfigFiles :
         LET self == IF cf_instance = None THEN NewConfig ELSE Val(cf_instance)
             r == Load(cf_variant, self, file)
         IN  /\ cf_instance' = Some(r.self)
             /\ cf_result' = IF r.exc = "none" THEN "instance" ELSE r.exc
             /\ cf_first' = IF cf_first = None /\ r.exc = "none" THEN r.self.parsed
                             ELSE cf_first
    /\ UNCHANGED <<cf_variant, importVars, readVars, rowVars, invVars, monthVars,
                   entityVars, sheetVars, loadVars, secretVars>>

(***************************************************************************)
(* Specifications                                                          *)
(***************************************************************************)
Init == InitImport /\ ReadIdle /\ RowIdle /\ InvIdle /\ MonthIdle /\ EntityIdle /\ SheetIdle /\ LoadIdle /\ SecretIdle /\ ConfigIdle

Next ==
    \/ Discover
    \/ OpenFile
    \/ InsertRecord
    \/ InsertFails
    \/ CommitRows
    \/ MoveFile
    \/ MoveFails
    \/ CatchError
    \/ FinishRun

Spec == Init /\ [][Next]_vars

\* several invocations of run, one after the other
NextRuns == Next \/ NewRun
SpecRuns == Init /\ [][NextRuns]_vars

InitReadSpec == ImportIdle /\ InitRead /\ RowIdle /\ InvIdle /\ MonthIdle /\ EntityIdle /\ SheetIdle /\ LoadIdle /\ SecretIdle /\ ConfigIdle
NextRead == ReadRowStep \/ ReadReturn
SpecRead == InitReadSpec /\ [][NextRead]_vars

InitRowSpec == ImportIdle /\ ReadIdle /\ RowIdle /\ InvIdle /\ MonthIdle /\ EntityIdle /\ SheetIdle /\ LoadIdle /\ SecretIdle /\ ConfigIdle
NextRow == Construct
SpecRow == InitRowSpec /\ [][NextRow]_vars

InitInvoiceSpec == ImportIdle /\ ReadIdle /\ RowIdle /\ InitInvoice /\ MonthIdle /\ EntityIdle /\ SheetIdle /\ LoadIdle /\ SecretIdle /\ ConfigIdle
NextInvoice ==
    \/ LoadData
    \/ CheckData
    \/ NextPayer
    \/ ClientInvoice
    \/ MergePayer
    \/ FinishInvoices
SpecInvoice == InitInvoiceSpec /\ [][NextInvoice]_vars

InitMonthSpec == ImportIdle /\ ReadIdle /\ RowIdle /\ InvIdle /\ InitMonth /\ EntityIdle /\ SheetIdle /\ LoadIdle /\ SecretIdle /\ ConfigIdle
NextMonth ==
    \/ get_month_period
    \/ get_month_period_unused
    \/ get_month_period_rechnungen
SpecMonth == InitMonthSpec /\ [][NextMonth]_vars

InitEntitySpec == ImportIdle /\ ReadIdle /\ RowIdle /\ InvIdle /\ MonthIdle /\ InitEntity /\ SheetIdle /\ LoadIdle /\ SecretIdle /\ ConfigIdle
NextEntity ==
    \/ Entity_shared
    \/ Entity_module
    \/ Entity_rechnungen
SpecEntity == InitEntitySpec /\ [][NextEntity]_vars

InitSheetSpec ==
    ImportIdle /\ ReadIdle /\ RowIdle /\ InvIdle /\ MonthIdle /\ EntityIdle /\ InitSheet /\ LoadIdle /\ SecretIdle /\ ConfigIdle
NextSheet ==
    \/ create_reporting_sheet
    \/ create_reporting_sheet_zeiterfassungen
    \/ ProfileFromConfig
    \/ ProfileGiven
    \/ ReadHeader
SpecSheet == InitSheetSpec /\ [][NextSheet]_vars

InitLoadSpec ==
    ImportIdle /\ ReadIdle /\ RowIdle /\ InvIdle /\ MonthIdle /\ EntityIdle /\ SheetIdle
      /\ InitLoad /\ SecretIdle /\ ConfigIdle
NextLoad == load_data_rechnungen \/ load_data_invoices
SpecLoad == InitLoadSpec /\ [][NextLoad]_vars

InitSecretSpec ==
    ImportIdle /\ ReadIdle /\ RowIdle /\ InvIdle /\ MonthIdle /\ EntityIdle /\ SheetIdle
      /\ LoadIdle /\ InitSecret /\ ConfigIdle
NextSecret == get_sheet_password_time_sheets \/ get_sheet_password_zeiterfassungen
SpecSecret == InitSecretSpec /\ [][NextSecret]_vars

InitConfigSpec ==
    ImportIdle /\ ReadIdle /\ RowIdle /\ InvIdle /\ MonthIdle /\ EntityIdle /\ SheetIdle
      /\ LoadIdle /\ SecretIdle /\ InitConfig
NextConfig == Config_new \/ Config_load \/ Config_shared
SpecConfig == InitConfigSpec /\ [][NextConfig]_vars

(***************************************************************************)
(* Properties                                                              *)
(***************************************************************************)
Range(q) == {q[i] : i \in DOMAIN q}

\* the committed rows of invoice_data that stem from file f, in table order
RowsFrom(f) == SelectSeq(invoice_data, LAMBDA r : r.src = f)

\* the last call of the logger
LastLog == IF log = <<>> THEN [file |-> 0, what |-> "nothing"] ELSE log[Len(log)]

\* _import_rows has just raised for the current file
ImportRaised == pc = "raised" /\ LastLog.what = "rollback" /\ LastLog.file = files[idx]

\* _import_rows has just returned for the current file
ImportReturned == pc = "move" /\ rows # <<>>

\* C1: _import_rows is all-or-nothing per call.  When an insert (or the commit)
\* raises, the transaction is rolled back, none of the records of the call is
\* in invoice_data and the exception propagates; when nothing raises, all the
\* records of the call are committed, in order, and the returned count is the
\* number of records passed in.
C1_AllOrNothing ==
    /\ ImportRaised =>
          /\ exc = "Exception"
          /\ txn = <<>>
          /\ RowsFrom(files[idx]) = <<>>
    /\ ImportReturned =>
          /\ count = Len(rows)
          /\ txn = <<>>
          /\ RowsFrom(files[idx]) =
                [k \in 1 .. Len(rows) |->
                    [src |-> files[idx], row |-> rows[k].row, rec |-> rows[k].rec]]

\* a call that raised after an insert had been executed, in a run in which an
\* earlier call committed its records
C1_Witness ==
    /\ ImportRaised
    /\ count >= 1
    /\ idx = 2
    /\ Len(RowsFrom(files[1])) = 2

\* an exception of process_file was logged for file f
ErrorLogged(f) ==
    \E j \in DOMAIN log : log[j].file = f /\ log[j].what \in {"AssertionError", "Exception"}

\* C2: in run, an exception raised while a file is processed is logged and
\* caught, and every later file of the sorted discovery order is still
\* processed: each file before the current one was either completed or its
\* failure logged, and the run ends only when every discovered file was opened.
C2_BatchContinues ==
    /\ pc # "start" =>
          \A i \in 1 .. Len(files) :
              i < idx => (files[i] \in moved \/ ErrorLogged(files[i]))
    /\ pc = "done" =>
          /\ idx = Len(files) + 1
          /\ \A i \in 1 .. Len(files) : content[files[i]] # Unopened

\* the first file failed and the second one was imported after it
C2_Witness ==
    /\ pc = "done"
    /\ Len(files) = 2
    /\ ErrorLogged(files[1])
    /\ files[1] \in source_dir
    /\ files[2] \in moved
    /\ RowsFrom(files[2]) # <<>>

\* ---- _read_rows: what happened to row i of the rows read so far ----
Appended(i) == \E k \in DOMAIN rd_rows : rd_rows[k].row = i
Raised(i) == rd_pc = "raised" /\ i = Len(ws)
Validated(i) == Appended(i) \/ (\E k \in DOMAIN rd_log : rd_log[k] = i) \/ Raised(i)
Skipped(i) == i \in 1 .. Len(ws) /\ ~Validated(i)

NoDate(cells) == to_date(cells.date) = None
DurationOf(c) == OrZero(to_float(c))
NoDuration(cells) ==
    /\ DurationOf(cells.travel) = 0
    /\ DurationOf(cells.direct) = 0
    /\ DurationOf(cells.indirect) = 0
NoBillable(cells) == to_float(cells.billable) = None

\* C3: when the validation of one row against InvoiceRowModel fails, the row is
\* dropped and the remaining rows up to end_row are still read: _read_rows
\* always ends by returning, after it has visited every row of the range.
C3_RowFailureIsolated ==
    rd_pc \in {"returned", "raised"} => (rd_pc = "returned" /\ Len(ws) = NumRows)

\* C4: a row of the range is skipped if and only if its service date is empty
\* or unparseable and all its duration cells are empty or zero.
C4_SkipIffEmpty ==
    \A i \in 1 .. Len(ws) : Skipped(i) <=> (NoDate(ws[i]) /\ NoDuration(ws[i]))

\* C5: a row whose billable-hours cell is absent is imported with
\* billable_hours = direct_time + indirect_time.
C5_BillableDerived ==
    \A i \in 1 .. Len(ws) :
       (~Skipped(i) /\ NoBillable(ws[i])) =>
           \E k \in DOMAIN rd_rows :
              /\ rd_rows[k].row = i
              /\ rd_rows[k].rec.billable_hours =
                    DurationOf(ws[i].direct) + DurationOf(ws[i].indirect)

\* C6: every record the importer writes to invoice_data and to the export has
\* total_hours = travel_time + direct_time + indirect_time.
C6_TotalHours ==
    \A r \in Range(invoice_data) \cup Range(all_export_rows) :
        r.rec.total_hours =
            Some(r.rec.travel_time + r.rec.direct_time + r.rec.indirect_time)

\* C7: a record built without total_costs has total_costs = billable_hours *
\* hourly_rate when hourly_rate is present and total_costs = None otherwise.
C7_TotalCosts ==
    (built.kind = "ok" /\ "total_costs" \notin DOMAIN payload) =>
        LET rec == Val(built.rec)
        IN  IF rec.hourly_rate # None
            THEN rec.total_costs = Some(rec.billable_hours * Val(rec.hourly_rate))
            ELSE rec.total_costs = None

\* ---- process_file: the header as the claim describes it ----
EmptyCell(c) == c[1] \in {"none", "estr"}
Handled(f) == \E i \in 1 .. Len(files) : files[i] = f /\ i < idx
Rejected(f) == \E j \in DOMAIN log : log[j].file = f /\ log[j].what = "AssertionError"

\* C8: a file whose configured sheet is missing or whose header client_id,
\* employee_id or service_type is empty is rejected with an AssertionError;
\* none of its rows gets into invoice_data and it is not moved.
C8_StructureChecked ==
    \A f \in FileNames :
       (/\ Handled(f)
        /\ content[f].state = "workbook"
        /\ \/ profile_sheet /\ ~content[f].sheet_present
           \/ EmptyCell(content[f].header.client_id)
           \/ EmptyCell(content[f].header.employee_id)
           \/ EmptyCell(content[f].header.service_type))
       => (Rejected(f) /\ RowsFrom(f) = <<>> /\ f \in source_dir /\ f \notin moved)

\* C9: after run, a discovered file is in 'importiert' and gone from the source
\* directory if and only if its rows were committed or it had no importable
\* rows; a file that failed earlier is still in the source directory.
NoRowsFound(f) == \E j \in DOMAIN log : log[j].file = f /\ log[j].what = "no rows"
InImported(f) == \E e \in imported_dir : e.file = f
C9_MovedIffCompleted ==
    pc = "done" =>
       \A f \in Range(files) :
          (InImported(f) /\ f \notin source_dir) <=> (RowsFrom(f) # <<>> \/ NoRowsFound(f))

\* ---- InvoiceProcessor.run ----
\* the rows of the (payer, client) group
GroupOf(p, c) == {i \in DOMAIN df : df[i].ZDNR = p /\ df[i].Klient = c}

\* the context holds the total of column col, and it is the sum over the group
HasTotal(ctx, col) ==
    /\ Lower(col) \in DOMAIN ctx.totals
    /\ ctx.totals[Lower(col)] = SumOver(df, GroupOf(ctx.payer, ctx.client), col)

\* the rows groupby puts into a group: those with a payer and a client key
Keyed(i) == df[i].ZDNR # NaN /\ df[i].Klient # NaN

\* every group of the payers handled so far has its invoice context
GroupsCovered ==
    inv_pc = "done" =>
       \A i \in {j \in DOMAIN df : Keyed(j)} :
          \E k \in DOMAIN contexts :
             contexts[k].payer = df[i].ZDNR /\ contexts[k].client = df[i].Klient

NoDuplicates(q) == \A j, k \in DOMAIN q : j # k => q[j] # q[k]

\* the PDFs generated so far in this run for the clients of payer p
GeneratedFor(p) == {f \in Range(all_invoices) : f.payer = p}

MonthOf(str) == str[1][2]
YearOf(str) == str[3][2]

\* the last calendar day of the month
LastDay(y, m) ==
    CASE m = 2 -> IF y % 4 = 0 /\ (y % 100 # 0 \/ y % 400 = 0) THEN 29 ELSE 28
      [] m \in {4, 6, 9, 11} -> 30
      [] OTHER -> 31

\* the value denotes the day d.m.y, as a datetime or as a dd.mm.YYYY string
Denotes(v, y, m, d) ==
    \/ v = datetime(y, m, d)
    \/ v = <<Digits(d), Dot, Digits(m), Dot, Digits(y)>>

\* C12: for every month string MM.YYYY or MM-YYYY with month 1..12,
\* get_month_period returns a start on day 1 of that month and an end on the
\* last calendar day of the same month and year.
C12_MonthPeriod ==
    mp_pc \in {"returned", "raised"} =>
       /\ mp_pc = "returned"
       /\ Denotes(period.start, YearOf(abrechnungsmonat), MonthOf(abrechnungsmonat), 1)
       /\ Denotes(period.end, YearOf(abrechnungsmonat), MonthOf(abrechnungsmonat),
                  LastDay(YearOf(abrechnungsmonat), MonthOf(abrechnungsmonat)))

\* ---- Entity ----
\* zip and city are the two halves of zip_city at its first space
SplitOf(zc) ==
    LET parts == split_once(strip(zc))
    IN  [zip |-> parts[1], city |-> IF Len(parts) > 1 THEN parts[2] ELSE <<>>]

\* C13: after construction of an Entity, whenever zip, city or zip_city is
\* non-empty, zip_city equals the stripped join of zip, one space and city, and
\* zip and city equal the split of zip_city at its first space.
C13_ZipCityConsistent ==
    (en_pc = "built" /\ (entity.zip # <<>> \/ entity.city # <<>> \/ entity.zip_city # <<>>))
    => /\ entity.zip_city = strip(zip_space_city(entity.zip, entity.city))
       /\ entity.zip = SplitOf(entity.zip_city).zip
       /\ entity.city = SplitOf(entity.zip_city).city

\* ---- create_reporting_sheet and the import of its sheet ----
\* C14: the cells create_reporting_sheet writes are the cells _read_header
\* reads: an importer set up from the same configuration gets its profile, and
\* the header it reads from the sheet created for client c, employee e,
\* service type s and month M has client_id = c, employee_id = e,
\* service_type = s and month string M.
C14_SameHeaderLayout ==
    /\ sh_pc # "profile raised"
    /\ (/\ sh_pc = "header read"
        /\ imp_profile.source = "config"
        /\ Val(out_wb).by = "TimeSheetFactory")
       => LET h == Val(imp_header)
              hd == sheet_args.header_data
          IN  /\ h.client_id = Cell("text", hd.client_id)
              /\ h.employee_id = Cell("text", hd.employee_id)
              /\ h.service_type = Cell("text", hd.service_type)
              /\ h.month_str = Some(hd.reporting_month_dt \div 30)

\* the written sheet is protected and its password is the one passed to the
\* call or the factory's own sheet password
ProtectedWithPassword(wb) ==
    /\ wb.protection.sheet
    /\ wb.protection.password # None
    /\ wb.protection.password \in {sheet_args.sheet_password, Some(OwnPassword)}

\* C15 as stated: every file create_reporting_sheet writes has its sheet
\* protection enabled with the sheet password set, whatever the protection
\* state of the template.
C15_AlwaysProtected ==
    out_wb # None => ProtectedWithPassword(Val(out_wb))

\* C15 amended: every file create_reporting_sheet writes from a template whose
\* sheet protection is enabled has its sheet protection enabled with the
\* sheet password set.
C15_ProtectedIfTemplateProtected ==
    (out_wb # None /\ sheet_args.template.sheet) => ProtectedWithPassword(Val(out_wb))

\* a sheet written by TimeSheetFactory from a protected template, without a
\* password argument
C15_Witness ==
    /\ out_wb # None
    /\ Val(out_wb).by = "TimeSheetFactory"
    /\ sheet_args.template.sheet
    /\ sheet_args.sheet_password = None
    /\ Val(out_wb).protection = [sheet |-> TRUE, password |-> Some(OwnPassword)]

\* C16: within one run of InvoiceProcessor, two distinct invoices (distinct
\* payer/client groups) receive distinct invoice ids.
C16_UniqueInvoiceIds ==
    \A j, k \in DOMAIN contexts :
       (j # k /\ <<contexts[j].payer, contexts[j].client>>
                     # <<contexts[k].payer, contexts[k].client>>)
       => contexts[j].invoice_id # contexts[k].invoice_id

\* C17: at the end of TimeSheetsImporter.run the returned total is the number
\* of rows committed to invoice_data during the run, and the export file
\* holds exactly the committed rows, one export row per committed row.
ExportedRows == IF exported = None THEN <<>> ELSE Val(exported)
C17_TotalAndExportAreCommitted ==
    pc = "done" =>
      /\ total = Len(invoice_data)
      /\ Len(ExportedRows) = Len(invoice_data)
      /\ \A i \in 1 .. Len(ExportedRows) :
            /\ ExportedRows[i].source_file = invoice_data[i].src
            /\ ExportedRows[i].row = invoice_data[i].row
            /\ ExportedRows[i].rec = invoice_data[i].rec

\* C18: across the invocations of run the rows of one source file are
\* committed to invoice_data at most once: once they are committed the file has
\* left the source directory, so no later run discovers and imports it again.
C18_CommittedAtMostOnce ==
    \A i, j \in DOMAIN invoice_data :
       (invoice_data[i].src = invoice_data[j].src
          /\ invoice_data[i].row = invoice_data[j].row) => i = j

\* C19: _move_to_imported never overwrites or destroys a file of the
\* 'importiert' folder: every file that is there before a step is still there
\* after it (a colliding file is stored under a time-stamped name).
C19_NeverOverwrites == [][\A e \in imported_dir : e \in imported_dir']_vars

\* the files process_file returned for, in the order run handled them, and
\* the month to_year_month_str derived from the header of each
MovedInOrder == SelectSeq(files, LAMBDA f : f \in moved)
HeaderMonth(f) == to_year_month_str(content[f].header.reporting_month)
MovedWithMonth == SelectSeq(MovedInOrder, LAMBDA f : HeaderMonth(f) # None)

C21_UndatedRowGetsToday ==
    \A i \in 1 .. Len(ws) :
       (NoDate(ws[i]) /\ ~NoDuration(ws[i])) =>
           \E k \in DOMAIN rd_rows :
              rd_rows[k].row = i /\ rd_rows[k].rec.service_date = Today

\* ---- InvoiceProcessor.run: failures inside log_exceptions ----
InSeq(x, q) == \E i \in DOMAIN q : q[i] = x
RenderFailed(p, c) ==
    \E i \in DOMAIN inv_log :
       /\ inv_log[i].what = "pdf" /\ inv_log[i].exc = "render fails"
       /\ inv_log[i].payer = p /\ inv_log[i].client = c
ContextOf(p, c) == \E i \in DOMAIN contexts : contexts[i].payer = p /\ contexts[i].client = c
Groups == {<<df[i].ZDNR, df[i].Klient>> : i \in {j \in DOMAIN df : Keyed(j)}}

C23_SummaryMatchesArchive ==
    \A i \in DOMAIN contexts :
       InSeq(contexts[i], invoice_list)
          <=> InSeq(docx_to_pdf(contexts[i].payer, contexts[i].client), all_invoices)

\* ---- load_data: the rows the filter asks for ----
Satisfies(r, flt) ==
    /\ flt.payer # None => r.payer = Val(flt.payer).v
    /\ flt.client # None => r.client = Val(flt.client).v
    /\ flt.service_requester # None => r.service_requester = Val(flt.service_requester).v
    /\ flt.payer_list # None => r.payer \in Val(flt.payer_list).v
    /\ flt.client_list # None => r.client \in Val(flt.client_list).v
    /\ flt.service_date_range # None =>
          /\ Val(flt.service_date_range).start <= r.service_date
          /\ r.service_date <= Val(flt.service_date_range).end
DataBelowHeader == [i \in 1 .. Len(ld_sheet) - 4 |-> ReplaceLeer(ld_sheet[i + 4])]

\* C24: load_data returns exactly the data rows below the three skipped rows
\* and the header row that satisfy every criterion set in the InvoiceFilter, in
\* particular only rows whose service date lies in the service period of
\* invoice_month; criteria that are not set do not restrict.
C24_ExactlyTheFilteredRows ==
    ld_pc \in {"returned", "returned by invoices"} =>
       ld_df.rows = SelectSeq(DataBelowHeader, LAMBDA r : Satisfies(r, ld_filter))

\* C25: the data consistency check precedes all output: when an expected
\* column is missing from the loaded data, run raises before any invoice is
\* rendered, and no PDF, merged PDF, summary workbook or ZIP archive exists.
ColumnMissing == \E c \in DOMAIN columns_cfg : c \notin df_columns
C25_CheckBeforeOutput ==
    ColumnMissing =>
       /\ inv_pc \in {"load", "check", "failed"}
       /\ contexts = <<>> /\ all_invoices = <<>> /\ invoices_for_payer = <<>>
       /\ invoice_list = <<>> /\ merged = <<>> /\ outputs = {}

\* rows were loaded, a column is missing and run has raised
C25_Witness ==
    /\ inv_pc = "failed"
    /\ df # <<>>
    /\ ColumnMissing
    /\ outputs = {}

\* C26: the payer/client grouping partitions the loaded rows: every row that
\* load_data returned is in the position list of exactly one (payer, client)
\* invoice context; no row is dropped or counted in two invoices.
C26_GroupingPartitionsRows ==
    inv_pc = "done" =>
       \A i \in DOMAIN df :
          \E k \in DOMAIN contexts :
             /\ i \in contexts[k].positions
             /\ \A j \in DOMAIN contexts : i \in contexts[j].positions => j = k

\* ---- get_sheet_password: what the environment yields ----
\* the text of SHEET_PASSWORD_ENC, when key and token are there and fit
Decrypted ==
    LET enc == environ.SHEET_PASSWORD_ENC
        key == environ.FERNET_KEY
    IN  IF enc # None /\ key # None /\ Val(key).plain \in FernetKeys
             /\ Val(enc).key = Val(key).plain
        THEN Some(Text(Val(enc).plain)) ELSE None

\* C27: get_sheet_password returns the decrypted value of SHEET_PASSWORD_ENC
\* when it can be obtained, otherwise the plain SHEET_PASSWORD, and raises
\* RuntimeError only when neither yields a password.
C27_PasswordOrder ==
    pw_pc # "call" =>
       IF ~Falsy(Decrypted) THEN sheet_pw = Ok(Decrypted)
       ELSE IF ~Falsy(environ.SHEET_PASSWORD) THEN sheet_pw = Ok(environ.SHEET_PASSWORD)
       ELSE sheet_pw.st \notin {"ok", "none"}

\* C28: Config is a process-wide singleton whose configuration is loaded only
\* once: there is never a second Config object, and after the first successful
\* load every later construction or load() call leaves the configuration data
\* as that load made them.
C28_LoadedOnce ==
    /\ cf_created <= 1
    /\ cf_first # None =>
          /\ Val(cf_instance).parsed = cf_first
          /\ Val(cf_instance).raw = cf_first

====
